---- MODULE Spec2Model ----
(***************************************************************************)
(* Streaming response orchestrator of the chat client                      *)
(* (streamGeminiResponse): request shaping, stream consumption, the        *)
(* bounded retry loop with exponential backoff and the model fallback;     *)
(* and the conversation controller (App): the session list, the active     *)
(* session, send and continue, the callbacks that write the streamed text  *)
(* into the placeholder of the session, and the save effect that writes    *)
(* the redacted session list to localStorage behind a timeout of 500 ms.   *)
(*                                                                         *)
(* Texts (error messages, model identifiers, chunk texts) are sequences of *)
(* tokens; the empty sequence is the empty string.  Concatenation is \o    *)
(* and String.includes is a search for a contiguous run of tokens.  The    *)
(* user-visible Russian texts are written as ASCII tokens.                 *)
(***************************************************************************)
EXTENDS Integers, Sequences, FiniteSets, TLC

\* ------------------------------------------------------------------ bounds

\* Fragments delivered by the remote API over one whole call.
MaxFrags == 2
\* Length of the histories of the request-shaping specification.
MaxHist == 2
\* Sessions the controller creates after start-up, and the sends and
\* continues it issues per load of the page.
MaxCreated == 1
MaxTurns == 1
\* How often the page is loaded again.
MaxLoads == 1

\* ------------------------------------------------------------ text helpers

Includes(s, sub) ==
    \E i \in 1..(Len(s) + 1) :
        /\ i + Len(sub) - 1 <= Len(s)
        /\ SubSeq(s, i, i + Len(sub) - 1) = sub

Last(s) == s[Len(s)]

RECURSIVE Pow2(_)
Pow2(n) == IF n = 0 THEN 1 ELSE 2 * Pow2(n - 1)

RECURSIVE SumSeq(_)
SumSeq(s) == IF s = <<>> THEN 0 ELSE s[1] + SumSeq(Tail(s))

\* --------------------------------------------------------- program constants

maxRetries == 3

\* Model identifiers.  'gemini-3-flash' is the run <<"gemini-", "3-flash">>,
\* 'gemini-2.0' the run <<"gemini-", "2.0">>.
Gemini3Flash == <<"gemini-", "3-flash">>
Gemini20 == <<"gemini-", "2.0">>
Gemini20Flash == <<"gemini-", "2.0", "-flash">>
Gemini3FlashPreview == <<"gemini-", "3-flash", "-preview">>
Gemini3ProPreview == <<"gemini-", "3-pro", "-preview">>

\* The texts handed to onChunk by the catch block.
NoticeSwitchTo20 == <<"(!) Model 3.0 limit with search. Switching to Gemini 2.0 Flash...">>
NoticeSwitchTo30 == <<"(!) Gemini 2.0 is busy. Switching to Gemini 3.0 Flash...">>
NoticeRetry == <<"Server is busy, retrying...">>
ErrorMarker == <<"Oshibka: ">>
UnknownErrorMsg == <<"An unknown error occurred.">>
QuotaTemplate == <<"Request limit exceeded (429). ", "\n", "\n", "All model switching attempts are exhausted. Try turning off Web or wait a little.">>
OverloadTemplate == <<"Google servers are overloaded (503). Please wait a minute and try again.">>
SearchSuffix == <<"\n", "(Important: use the Google Search tool to find current information and confirm facts. Always cite the sources.)">>
ObjectObject == <<"[object Object]">>

Notices == {NoticeSwitchTo20, NoticeSwitchTo30, NoticeRetry}

\* ------------------------------------------------------ error classification

isOverloaded(errorMessage) ==
    Includes(errorMessage, <<"503">>) \/ Includes(errorMessage, <<"Overloaded">>)

isQuota(errorMessage) ==
    \/ Includes(errorMessage, <<"429">>)
    \/ Includes(errorMessage, <<"quota">>)
    \/ Includes(errorMessage, <<"RESOURCE_EXHAUSTED">>)

ShouldRetryAnyError(errorMessage, att) == att < maxRetries

ShouldRetryOneMore(errorMessage, att) ==
    (isOverloaded(errorMessage) \/ isQuota(errorMessage)) /\ att <= maxRetries

\* The condition of the retry branch.
ShouldRetry(errorMessage, att) ==
    (isOverloaded(errorMessage) \/ isQuota(errorMessage)) /\ att < maxRetries

DelayLinear(att) == 1500 * (att + 1)

\* Exponential backoff.
Delay(att) == 1500 * Pow2(att)

\* --------------------------------------------------------- fallback strategy

\* What the retry branch decides: the model of the next attempt, the switch
\* flag and the texts it hands to onChunk before sleeping (none or one).
FallbackNoOnceGuard(errorMessage, search, model, switched, att) ==
    IF isQuota(errorMessage) /\ search /\ Includes(model, Gemini3Flash)
    THEN [currentModelId |-> Gemini20Flash, hasSwitchedModel |-> TRUE,
          chunks |-> <<NoticeSwitchTo20>>]
    ELSE IF Includes(model, Gemini20)
    THEN [currentModelId |-> Gemini3FlashPreview, hasSwitchedModel |-> TRUE,
          chunks |-> <<NoticeSwitchTo30>>]
    ELSE [currentModelId |-> model, hasSwitchedModel |-> switched,
          chunks |-> IF att > 0 THEN <<NoticeRetry>> ELSE <<>>]

FallbackWithoutSearch(errorMessage, search, model, switched, att) ==
    IF isQuota(errorMessage) /\ Includes(model, Gemini3Flash) /\ ~switched
    THEN [currentModelId |-> Gemini20Flash, hasSwitchedModel |-> TRUE,
          chunks |-> <<NoticeSwitchTo20>>]
    ELSE IF Includes(model, Gemini20) /\ ~switched
    THEN [currentModelId |-> Gemini3FlashPreview, hasSwitchedModel |-> TRUE,
          chunks |-> <<NoticeSwitchTo30>>]
    ELSE [currentModelId |-> model, hasSwitchedModel |-> switched,
          chunks |-> IF att > 0 THEN <<NoticeRetry>> ELSE <<>>]

FallbackNoisyFirstRetry(errorMessage, search, model, switched, att) ==
    IF isQuota(errorMessage) /\ search /\ Includes(model, Gemini3Flash) /\ ~switched
    THEN [currentModelId |-> Gemini20Flash, hasSwitchedModel |-> TRUE,
          chunks |-> <<NoticeSwitchTo20>>]
    ELSE IF Includes(model, Gemini20) /\ ~switched
    THEN [currentModelId |-> Gemini3FlashPreview, hasSwitchedModel |-> TRUE,
          chunks |-> <<NoticeSwitchTo30>>]
    ELSE [currentModelId |-> model, hasSwitchedModel |-> switched,
          chunks |-> <<NoticeRetry>>]

FallbackSilentSwitch(errorMessage, search, model, switched, att) ==
    IF isQuota(errorMessage) /\ search /\ Includes(model, Gemini3Flash) /\ ~switched
    THEN [currentModelId |-> Gemini20Flash, hasSwitchedModel |-> TRUE,
          chunks |-> <<>>]
    ELSE IF Includes(model, Gemini20) /\ ~switched
    THEN [currentModelId |-> Gemini3FlashPreview, hasSwitchedModel |-> TRUE,
          chunks |-> <<NoticeSwitchTo30>>]
    ELSE [currentModelId |-> model, hasSwitchedModel |-> switched,
          chunks |-> IF att > 0 THEN <<NoticeRetry>> ELSE <<>>]

Fallback(errorMessage, search, model, switched, att) ==
    IF isQuota(errorMessage) /\ search /\ Includes(model, Gemini3Flash) /\ ~switched
    THEN [currentModelId |-> Gemini20Flash, hasSwitchedModel |-> TRUE,
          chunks |-> <<NoticeSwitchTo20>>]
    ELSE IF Includes(model, Gemini20) /\ ~switched
    THEN [currentModelId |-> Gemini3FlashPreview, hasSwitchedModel |-> TRUE,
          chunks |-> <<NoticeSwitchTo30>>]
    ELSE [currentModelId |-> model, hasSwitchedModel |-> switched,
          chunks |-> IF att > 0 THEN <<NoticeRetry>> ELSE <<>>]

\* ------------------------------------------------------ final error message

\* JSON texts of the error payloads: an object is "{" [key value] "}", a value
\* is an object, a string literal or a number.  The texts carry no commas, so
\* an object has at most one member.
KeyError == "\"error\":"
KeyMessage == "\"message\":"
KeyCode == "\"code\":"
QEmpty == "\"\""
QApiKey == "\"API key not valid\""
N400 == "400"
JsonKeys == {KeyError, KeyMessage, KeyCode}
JsonStrings == {QEmpty, QApiKey}
JsonScalars == JsonStrings \cup {N400}

\* errorMessage.match(/\{.*\}/): the leftmost "{" that has a "}" after it on
\* the same line, up to the last such "}".
Closers(s, i) ==
    {j \in (i + 1)..Len(s) :
        s[j] = "}" /\ \A k \in (i + 1)..(j - 1) : s[k] # "\n"}

Openers(s) == {i \in 1..Len(s) : s[i] = "{" /\ Closers(s, i) # {}}

Min(S) == CHOOSE x \in S : \A y \in S : x <= y
Max(S) == CHOOSE x \in S : \A y \in S : x >= y

jsonMatch(s) ==
    IF Openers(s) = {}
    THEN [found |-> FALSE, text |-> <<>>]
    ELSE [found |-> TRUE,
          text |-> SubSeq(s, Min(Openers(s)), Max(Closers(s, Min(Openers(s)))))]

\* Whether JSON.parse accepts the text.
RECURSIVE JsonValid(_)
JsonValid(t) ==
    \/ Len(t) = 1 /\ t[1] \in JsonScalars
    \/ /\ Len(t) >= 2
       /\ t[1] = "{"
       /\ t[Len(t)] = "}"
       /\ \/ Len(t) = 2
          \/ Len(t) > 3 /\ t[2] \in JsonKeys /\ JsonValid(SubSeq(t, 3, Len(t) - 1))

JsonIsObject(t) == Len(t) >= 2 /\ t[1] = "{"

\* v[key] of a parsed value: <<>> stands for undefined.
JsonGet(t, key) ==
    IF JsonIsObject(t) /\ Len(t) > 3 /\ t[2] = key
    THEN SubSeq(t, 3, Len(t) - 1)
    ELSE <<>>

\* JavaScript truthiness of a parsed value (or of undefined).
JsonTruthy(t) == t # <<>> /\ t # <<QEmpty>>

\* String(v) of a parsed value, as "Oshibka: " + v builds it.
JsonToText(t) ==
    IF JsonIsObject(t) THEN ObjectObject
    ELSE IF t = <<QApiKey>> THEN <<"API key not valid">>
    ELSE IF t = <<QEmpty>> THEN <<>>
    ELSE t

finalErrorMsgSwapped(errorMessage) ==
    IF isQuota(errorMessage) THEN OverloadTemplate
    ELSE IF isOverloaded(errorMessage) THEN QuotaTemplate
    ELSE errorMessage

\* The text the final error handling puts after the marker.
finalErrorMsg(errorMessage) ==
    IF isQuota(errorMessage) THEN QuotaTemplate
    ELSE IF isOverloaded(errorMessage) THEN OverloadTemplate
    ELSE IF errorMessage # <<>>
    THEN IF jsonMatch(errorMessage).found
         THEN IF ~JsonValid(jsonMatch(errorMessage).text)
              THEN errorMessage
              ELSE IF /\ JsonTruthy(JsonGet(jsonMatch(errorMessage).text, KeyError))
                      /\ JsonTruthy(JsonGet(JsonGet(jsonMatch(errorMessage).text, KeyError),
                                            KeyMessage))
                   THEN JsonToText(JsonGet(JsonGet(jsonMatch(errorMessage).text, KeyError),
                                           KeyMessage))
                   ELSE UnknownErrorMsg
         ELSE errorMessage
    ELSE UnknownErrorMsg

\* ---------------------------------------------------------- request shaping

RoleUser == "user"
RoleModel == "model"

tools(search) == IF search THEN <<"googleSearch">> ELSE <<>>

HistoryTurnWithAttachments(msg) ==
    [role |-> IF msg.role = RoleUser THEN "user" ELSE "model",
     parts |-> [k \in 1..Len(msg.attachments) |->
                   [inlineData |-> [mimeType |-> msg.attachments[k].mimeType,
                                    data |-> msg.attachments[k].data]]]
               \o <<[text |-> msg.text]>>]

\* One history message as a turn: its role and a single text part.
HistoryTurn(msg) ==
    [role |-> IF msg.role = RoleUser THEN "user" ELSE "model",
     parts |-> <<[text |-> msg.text]>>]

currentPartsSuffixAlways(text, atts, search) ==
    [k \in 1..Len(atts) |->
        [inlineData |-> [mimeType |-> atts[k].mimeType, data |-> atts[k].data]]]
    \o (IF (IF search THEN text \o SearchSuffix ELSE text) # <<>>
        THEN <<[text |-> IF search THEN text \o SearchSuffix ELSE text]>>
        ELSE <<>>)

\* The parts of the new user turn: the attachments, then the text.
currentParts(text, atts, search) ==
    [k \in 1..Len(atts) |->
        [inlineData |-> [mimeType |-> atts[k].mimeType, data |-> atts[k].data]]]
    \o (IF (IF search /\ text # <<>> THEN text \o SearchSuffix ELSE text) # <<>>
        THEN <<[text |-> IF search /\ text # <<>> THEN text \o SearchSuffix ELSE text]>>
        ELSE <<>>)

\* history.filter(msg => !msg.isThinking && msg.text)
filtered(hist) == SelectSeq(hist, LAMBDA msg : ~msg.isThinking /\ msg.text # <<>>)

contentsWithHistoryAttachments(hist, text, atts, search) ==
    [k \in 1..Len(filtered(hist)) |-> HistoryTurnWithAttachments(filtered(hist)[k])]
    \o <<[role |-> "user", parts |-> currentParts(text, atts, search)]>>

\* The turns sent upstream: the filtered history, then the new user turn.
contents(hist, text, atts, search) ==
    [k \in 1..Len(filtered(hist)) |-> HistoryTurn(filtered(hist)[k])]
    \o <<[role |-> "user", parts |-> currentParts(text, atts, search)]>>

\* ------------------------------------------------------- stream consumption

\* A fragment: its text (<<>> when it has none) and the grounding metadata of
\* its first candidate and of the fragment itself.
NoMeta == [present |-> FALSE, hasChunks |-> FALSE, groundingChunks |-> <<>>]

\* chunk.candidates?.[0]?.groundingMetadata || chunk.groundingMetadata
groundingMetadata(chunk) ==
    IF chunk.candidateMeta.present THEN chunk.candidateMeta ELSE chunk.groundingMetadata

websUriOnly(chunk) ==
    SelectSeq(groundingMetadata(chunk).groundingChunks, LAMBDA c : c.web /\ c.uri # <<>>)

\* groundingChunks.map(c => c.web).filter(w => w && w.uri && w.title)
webs(chunk) ==
    SelectSeq(groundingMetadata(chunk).groundingChunks,
              LAMBDA c : c.web /\ c.uri # <<>> /\ c.title # <<>>)

sources(chunk) ==
    [k \in 1..Len(webs(chunk)) |-> [uri |-> webs(chunk)[k].uri, title |-> webs(chunk)[k].title]]

\* ------------------------------------------------------------------- inputs

Att1 == [name |-> "scan.png", mimeType |-> "image/png", data |-> "iVBORw0KGgo=", size |-> 8]
Att2 == [name |-> "report.pdf", mimeType |-> "application/pdf", data |-> "JVBERi0=", size |-> 5]

Messages ==
    [role : {RoleUser, RoleModel},
     text : {<<>>, <<"q">>, <<"a">>},
     isThinking : BOOLEAN,
     attachments : {<<>>, <<Att1>>}]

Histories == UNION {[1..n -> Messages] : n \in 0..MaxHist}

ModelIds == {Gemini3FlashPreview, Gemini20Flash, Gemini3ProPreview}

\* The arguments of the calls of the retry specifications: a send with text
\* and one attachment after one exchange.
CallArgs ==
    {[history |-> <<[role |-> RoleUser, text |-> <<"q">>, isThinking |-> FALSE,
                    attachments |-> <<Att1>>],
                   [role |-> RoleModel, text |-> <<"a">>, isThinking |-> FALSE,
                    attachments |-> <<>>]>>,
      newMessage |-> <<"Hello">>, attachments |-> <<Att2>>]}

\* The arguments of the calls of the request-shaping specification.
ShapeArgs ==
    [history : Histories,
     newMessage : {<<>>, <<"Hello">>},
     attachments : {<<>>, <<Att2, Att1>>}]

\* What the remote API can throw: overload, quota, both, and other errors
\* (plain, empty, and with an embedded payload).
OverloadErrors == {<<"503">>, <<"The model is ", "Overloaded">>}
QuotaErrors == {<<"429">>, <<"RESOURCE_EXHAUSTED">>, <<"You exceeded your ", "quota">>}
MixedErrors == {<<"429", " after ", "503">>}
OtherErrors ==
    {<<"Bad Request">>,
     <<>>,
     <<"400 ", "{", KeyError, "{", KeyMessage, QApiKey, "}", "}">>,
     <<"{", "not json", "}">>,
     <<"{", KeyError, QApiKey, "}">>}
ErrorTexts == OverloadErrors \cup QuotaErrors \cup MixedErrors \cup OtherErrors

\* The errors of the streaming specification: one of each class.
StreamErrors == {<<"503">>, <<"429">>, <<"429", " after ", "503">>, <<"Bad Request">>}

\* What the remote API can stream.
Web(u, t) == [web |-> TRUE, uri |-> u, title |-> t]
NoWeb == [web |-> FALSE, uri |-> <<>>, title |-> <<>>]
Meta(chunks) == [present |-> TRUE, hasChunks |-> TRUE, groundingChunks |-> chunks]
Fragments ==
    {[text |-> <<"x">>, candidateMeta |-> NoMeta, groundingMetadata |-> NoMeta],
     [text |-> <<>>,
      candidateMeta |-> Meta(<<Web(<<"http://a">>, <<"A">>), Web(<<"http://b">>, <<>>), NoWeb>>),
      groundingMetadata |-> NoMeta],
     [text |-> <<"y">>, candidateMeta |-> NoMeta,
      groundingMetadata |-> Meta(<<Web(<<>>, <<"C">>)>>)]}

\* --------------------------------------------- the conversation controller

\* currentSessionId === null; session ids are positive numbers.
Null == 0

NewChatTitle == <<"Novyi chat">>
AttachmentTitle == <<"Vlozhenie">>
continueText == <<"Prodolzhi">>
NoAnswerText == <<"Ne udalos poluchit otvet ot servera. ", "Poprobuite smenit model.">>

\* A session and its messages, without the fields no code path reads back
\* (message ids, timestamps, updatedAt).
newSession(id) == [id |-> id, title |-> NewChatTitle, messages |-> <<>>]

UserMessage(text, atts) ==
    [role |-> RoleUser, text |-> text, isThinking |-> FALSE, attachments |-> atts,
     groundingSources |-> <<>>]

Placeholder ==
    [role |-> RoleModel, text |-> <<>>, isThinking |-> TRUE, attachments |-> <<>>,
     groundingSources |-> <<>>]

Ids(list) == {list[k].id : k \in 1..Len(list)}

\* sessions.find(s => s.id === currentSessionId)?.messages || []
currentSessionMessages(list, id) ==
    IF \E k \in 1..Len(list) : list[k].id = id
    THEN list[CHOOSE k \in 1..Len(list) :
                  list[k].id = id /\ \A j \in 1..(k - 1) : list[j].id # id].messages
    ELSE <<>>

\* text.slice(0, 30): the tokens of a text stand for its characters.
TitleLen == 30
Slice(text, n) == SubSeq(text, 1, Min({n, Len(text)}))

titleOfEverySend(s, text) ==
    IF Slice(text, TitleLen) \o (IF Len(text) > TitleLen THEN <<"...">> ELSE <<>>) # <<>>
    THEN Slice(text, TitleLen) \o (IF Len(text) > TitleLen THEN <<"...">> ELSE <<>>)
    ELSE AttachmentTitle

\* The title a send gives to a session.
titleOf(s, text) ==
    IF (IF Len(s.messages) = 0
        THEN Slice(text, TitleLen) \o (IF Len(text) > TitleLen THEN <<"...">> ELSE <<>>)
        ELSE s.title) # <<>>
    THEN (IF Len(s.messages) = 0
          THEN Slice(text, TitleLen) \o (IF Len(text) > TitleLen THEN <<"...">> ELSE <<>>)
          ELSE s.title)
    ELSE AttachmentTitle

sendUpdatePlaceholderFirst(prev, id, text, atts) ==
    [k \in 1..Len(prev) |->
        IF prev[k].id = id
        THEN [prev[k] EXCEPT !.title = titleOf(prev[k], text),
                             !.messages = @ \o <<Placeholder, UserMessage(text, atts)>>]
        ELSE prev[k]]

\* The updater of handleSendMessage: the user message and the placeholder are
\* appended to the session with the given id, whose title is derived.
sendUpdate(prev, id, text, atts) ==
    [k \in 1..Len(prev) |->
        IF prev[k].id = id
        THEN [prev[k] EXCEPT !.title = titleOf(prev[k], text),
                             !.messages = @ \o <<UserMessage(text, atts), Placeholder>>]
        ELSE prev[k]]

\* The updater of handleContinue.
continueUpdate(prev, id) ==
    [k \in 1..Len(prev) |->
        IF prev[k].id = id
        THEN [prev[k] EXCEPT !.messages = @ \o <<UserMessage(continueText, <<>>), Placeholder>>]
        ELSE prev[k]]

\* Whether an updater of processResponse touches session s: it is the session
\* of the call and its last message is a MODEL message. (On a session
\* without messages the code reads a field of undefined; the session of a
\* call always has the two messages its send appended.)
lastIsModel(s, id) ==
    s.id = id /\ Len(s.messages) > 0 /\ Last(s.messages).role = RoleModel

onChunkOfEverySession(prev, id, chunkText) ==
    [k \in 1..Len(prev) |->
        IF lastIsModel(prev[k], prev[k].id)
        THEN [prev[k] EXCEPT !.messages[Len(prev[k].messages)] =
                  [@ EXCEPT !.text = chunkText, !.isThinking = FALSE]]
        ELSE prev[k]]

\* The updater of onChunk: the text replaces that of the last message.
onChunk(prev, id, chunkText) ==
    [k \in 1..Len(prev) |->
        IF lastIsModel(prev[k], id)
        THEN [prev[k] EXCEPT !.messages[Len(prev[k].messages)] =
                  [@ EXCEPT !.text = chunkText, !.isThinking = FALSE]]
        ELSE prev[k]]

\* The updater of onGrounding.
onGrounding(prev, id, srcs) ==
    [k \in 1..Len(prev) |->
        IF lastIsModel(prev[k], id)
        THEN [prev[k] EXCEPT !.messages[Len(prev[k].messages)] =
                  [@ EXCEPT !.groundingSources = srcs]]
        ELSE prev[k]]

\* The updater of the finally block: a placeholder still thinking is closed,
\* with the fixed text when it has none.
finalUpdate(prev, id) ==
    [k \in 1..Len(prev) |->
        IF lastIsModel(prev[k], id) /\ Last(prev[k].messages).isThinking
        THEN [prev[k] EXCEPT !.messages[Len(prev[k].messages)] =
                  [@ EXCEPT !.isThinking = FALSE,
                            !.text = IF @ # <<>> THEN @ ELSE NoAnswerText]]
        ELSE prev[k]]

\* The callbacks of a run of events, applied in their order.
RECURSIVE delivered(_, _, _)
delivered(prev, id, events) ==
    IF events = <<>> THEN prev
    ELSE delivered(
           IF Head(events).ev = "onChunk" THEN onChunk(prev, id, Head(events).text)
           ELSE IF Head(events).ev = "onGrounding"
                THEN onGrounding(prev, id, Head(events).sources)
                ELSE prev,
           id, Tail(events))

safeSessionsWithData(list) == list

\* The copy of the sessions the save effect writes: every attachment keeps
\* its name, type and size, and its data is the empty string.
safeSessions(list) ==
    [k \in 1..Len(list) |->
        [list[k] EXCEPT !.messages =
            [m \in 1..Len(list[k].messages) |->
                [list[k].messages[m] EXCEPT !.attachments =
                    [a \in 1..Len(list[k].messages[m].attachments) |->
                        [list[k].messages[m].attachments[a] EXCEPT !.data = ""]]]]]]

\* setTimeout(saveToStorage, 500)
DebounceMs == 500

\* The timeout of the save effect: whether it is pending, the time since it
\* was set, and the sessions its callback closes over.
NoTimer == [pending |-> FALSE, age |-> 0, sessions |-> <<>>]
setTimeout(list) == [pending |-> TRUE, age |-> 0, sessions |-> list]

\* What localStorage holds under the key of the sessions: nothing, a text
\* JSON.parse rejects, or the text of a list. JSON.stringify and JSON.parse
\* keep every field a message has here (what they drop, undefined fields, is
\* what the records carry as FALSE and <<>>).
NoItem == [kind |-> "none", sessions |-> <<>>]
Item(list) == [kind |-> "list", sessions |-> list]

\* -------------------------------------------------------------------- state

VARIABLES
    history, newMessage, attachments, useSearch, modelId,  \* the arguments
    attempt, currentModelId, hasSwitchedModel, fullText,   \* the locals
    pc,      \* "idle" | "attempting" | "streaming" | "sleeping" | "succeeded" | "failed"
    trace,   \* what the call did so far, in order
    sessions, currentSessionId, isLoading,   \* the state of the controller
    selectedModelId,   \* its currentModelId
    rendered,          \* the sessions and isLoading of the last render
    callSessionId,     \* the currentSessionId captured by the callbacks
    nextId,            \* the next identifier uuidv4 returns
    mounted,           \* whether the load effect has run
    turns,             \* the sends and continues issued since the page was loaded
    localStorage,      \* the items under the keys of the sessions and of the model
    timer,             \* the timeout of the save effect
    defaultModel,      \* DEFAULT_MODEL
    loads,             \* how often the page was loaded again
    op                 \* the handler or step that ran last

vars == <<history, newMessage, attachments, useSearch, modelId,
          attempt, currentModelId, hasSwitchedModel, fullText, pc, trace,
          sessions, currentSessionId, isLoading, selectedModelId, rendered,
          callSessionId, nextId, mounted, turns, localStorage, timer, defaultModel,
          loads, op>>

controller == <<currentSessionId, isLoading, selectedModelId, rendered,
                callSessionId, nextId, mounted, turns, localStorage, timer,
                defaultModel, loads>>

\* What no handler but the load and save effects changes.
store == <<localStorage, defaultModel, loads>>

call == <<history, newMessage, attachments, useSearch, modelId,
          attempt, currentModelId, hasSwitchedModel, fullText, pc, trace>>

\* A handler or step: its name, the session it is about and the session it
\* created, if any.
Op(name, id, made) == [name |-> name, id |-> id, made |-> made]

args == <<history, newMessage, attachments, useSearch, modelId>>

\* The events of the trace.
EvRequest(att, model, cont, tls) ==
    [ev |-> "request", attempt |-> att, model |-> model, contents |-> cont, tools |-> tls]
EvFragment(att, chunk) == [ev |-> "fragment", attempt |-> att, chunk |-> chunk]
EvChunk(att, text, src) == [ev |-> "onChunk", attempt |-> att, text |-> text, src |-> src]
EvGrounding(att, srcs) == [ev |-> "onGrounding", attempt |-> att, sources |-> srcs]
EvError(att, msg) == [ev |-> "error", attempt |-> att, message |-> msg]
EvSleep(att, ms) == [ev |-> "sleep", attempt |-> att, ms |-> ms]
EvWake(att) == [ev |-> "wake", attempt |-> att]

Events(kind) == SelectSeq(trace, LAMBDA e : e.ev = kind)
Count(kind) == Len(Events(kind))

\* A call made by a caller other than the controller: there are no sessions
\* for the callbacks to update.
NoController ==
    /\ sessions = <<>>
    /\ currentSessionId = Null
    /\ isLoading = FALSE
    /\ selectedModelId = modelId
    /\ rendered = [sessions |-> <<>>, isLoading |-> FALSE]
    /\ callSessionId = Null
    /\ nextId = 1
    /\ mounted = FALSE
    /\ turns = 0
    /\ localStorage = [sessions |-> NoItem, model |-> <<>>]
    /\ timer = NoTimer
    /\ defaultModel = modelId
    /\ loads = 0
    /\ op = Op("step", Null, Null)

\* What the onChunk and onGrounding of a step do to the sessions: the
\* updaters of processResponse, queued in the order of the calls.
Callbacks ==
    /\ sessions' = delivered(sessions, callSessionId,
                             SubSeq(trace', Len(trace) + 1, Len(trace')))
    /\ op' = Op("step", Null, Null)
    /\ UNCHANGED controller

InitWith(callArgs, searchFlags, modelIds) ==
    /\ \E a \in callArgs :
        /\ history = a.history
        /\ newMessage = a.newMessage
        /\ attachments = a.attachments
    /\ useSearch \in searchFlags
    /\ modelId \in modelIds
    /\ attempt = 0
    /\ currentModelId = modelId
    /\ hasSwitchedModel = FALSE
    /\ fullText = <<>>
    /\ pc = "attempting"
    /\ trace = <<>>
    /\ NoController

Init == InitWith(CallArgs, BOOLEAN, ModelIds)

RequestDropsSearchAfterSwitch ==
    /\ pc = "attempting"
    /\ IF attempt <= maxRetries
       THEN /\ trace' = Append(trace,
                   EvRequest(attempt, currentModelId,
                             contents(history, newMessage, attachments,
                                      useSearch /\ ~hasSwitchedModel),
                             tools(useSearch /\ ~hasSwitchedModel)))
            /\ fullText' = <<>>
            /\ pc' = "streaming"
       ELSE /\ pc' = "succeeded"
            /\ UNCHANGED <<trace, fullText>>
    /\ UNCHANGED <<args, attempt, currentModelId, hasSwitchedModel>>
    /\ Callbacks

\* while (attempt <= maxRetries): build the request and send it.
Request ==
    /\ pc = "attempting"
    /\ IF attempt <= maxRetries
       THEN /\ trace' = Append(trace,
                   EvRequest(attempt, currentModelId,
                             contents(history, newMessage, attachments, useSearch),
                             tools(useSearch)))
            /\ fullText' = <<>>
            /\ pc' = "streaming"
       ELSE /\ pc' = "succeeded"
            /\ UNCHANGED <<trace, fullText>>
    /\ UNCHANGED <<args, attempt, currentModelId, hasSwitchedModel>>
    /\ Callbacks

StreamFragmentDelta(chunk) ==
    /\ pc = "streaming"
    /\ Count("fragment") < MaxFrags
    /\ fullText' = IF chunk.text # <<>> THEN fullText \o chunk.text ELSE fullText
    /\ trace' = trace
           \o <<EvFragment(attempt, chunk)>>
           \o (IF chunk.text # <<>>
               THEN <<EvChunk(attempt, chunk.text, "stream")>>
               ELSE <<>>)
           \o (IF /\ groundingMetadata(chunk).present
                  /\ groundingMetadata(chunk).hasChunks
                  /\ Len(sources(chunk)) > 0
               THEN <<EvGrounding(attempt, sources(chunk))>>
               ELSE <<>>)
    /\ UNCHANGED <<args, attempt, currentModelId, hasSwitchedModel, pc>>
    /\ Callbacks

StreamFragmentEveryFragment(chunk) ==
    /\ pc = "streaming"
    /\ Count("fragment") < MaxFrags
    /\ fullText' = fullText \o chunk.text
    /\ trace' = trace
           \o <<EvFragment(attempt, chunk)>>
           \o <<EvChunk(attempt, fullText \o chunk.text, "stream")>>
           \o (IF /\ groundingMetadata(chunk).present
                  /\ groundingMetadata(chunk).hasChunks
                  /\ Len(sources(chunk)) > 0
               THEN <<EvGrounding(attempt, sources(chunk))>>
               ELSE <<>>)
    /\ UNCHANGED <<args, attempt, currentModelId, hasSwitchedModel, pc>>
    /\ Callbacks

\* One iteration of for await (const chunk of result).
StreamFragment(chunk) ==
    /\ pc = "streaming"
    /\ Count("fragment") < MaxFrags
    /\ fullText' = IF chunk.text # <<>> THEN fullText \o chunk.text ELSE fullText
    /\ trace' = trace
           \o <<EvFragment(attempt, chunk)>>
           \o (IF chunk.text # <<>>
               THEN <<EvChunk(attempt, fullText \o chunk.text, "stream")>>
               ELSE <<>>)
           \o (IF /\ groundingMetadata(chunk).present
                  /\ groundingMetadata(chunk).hasChunks
                  /\ Len(sources(chunk)) > 0
               THEN <<EvGrounding(attempt, sources(chunk))>>
               ELSE <<>>)
    /\ UNCHANGED <<args, attempt, currentModelId, hasSwitchedModel, pc>>
    /\ Callbacks

\* The stream is exhausted: break.
StreamEnd ==
    /\ pc = "streaming"
    /\ pc' = "succeeded"
    /\ UNCHANGED <<args, attempt, currentModelId, hasSwitchedModel, fullText, trace>>
    /\ Callbacks

ThrowWithoutMarker(errorMessage) ==
    /\ pc = "streaming"
    /\ IF ShouldRetry(errorMessage, attempt)
       THEN /\ currentModelId' =
                   Fallback(errorMessage, useSearch, currentModelId, hasSwitchedModel,
                            attempt).currentModelId
            /\ hasSwitchedModel' =
                   Fallback(errorMessage, useSearch, currentModelId, hasSwitchedModel,
                            attempt).hasSwitchedModel
            /\ trace' = trace
                   \o <<EvError(attempt, errorMessage)>>
                   \o [k \in 1..Len(Fallback(errorMessage, useSearch, currentModelId,
                                             hasSwitchedModel, attempt).chunks) |->
                          EvChunk(attempt,
                                  Fallback(errorMessage, useSearch, currentModelId,
                                           hasSwitchedModel, attempt).chunks[k],
                                  "notice")]
                   \o <<EvSleep(attempt, Delay(attempt))>>
            /\ pc' = "sleeping"
       ELSE /\ trace' = trace
                   \o <<EvError(attempt, errorMessage),
                        EvChunk(attempt, finalErrorMsg(errorMessage), "error")>>
            /\ pc' = "failed"
            /\ UNCHANGED <<currentModelId, hasSwitchedModel>>
    /\ UNCHANGED <<args, attempt, fullText>>
    /\ Callbacks

ThrowNoticeAfterSleep(errorMessage) ==
    /\ pc = "streaming"
    /\ IF ShouldRetry(errorMessage, attempt)
       THEN /\ currentModelId' =
                   Fallback(errorMessage, useSearch, currentModelId, hasSwitchedModel,
                            attempt).currentModelId
            /\ hasSwitchedModel' =
                   Fallback(errorMessage, useSearch, currentModelId, hasSwitchedModel,
                            attempt).hasSwitchedModel
            /\ trace' = trace
                   \o <<EvError(attempt, errorMessage)>>
                   \o <<EvSleep(attempt, Delay(attempt))>>
                   \o [k \in 1..Len(Fallback(errorMessage, useSearch, currentModelId,
                                             hasSwitchedModel, attempt).chunks) |->
                          EvChunk(attempt,
                                  Fallback(errorMessage, useSearch, currentModelId,
                                           hasSwitchedModel, attempt).chunks[k],
                                  "notice")]
            /\ pc' = "sleeping"
       ELSE /\ trace' = trace
                   \o <<EvError(attempt, errorMessage),
                        EvChunk(attempt, ErrorMarker \o finalErrorMsg(errorMessage), "error")>>
            /\ pc' = "failed"
            /\ UNCHANGED <<currentModelId, hasSwitchedModel>>
    /\ UNCHANGED <<args, attempt, fullText>>
    /\ Callbacks

\* The request or the stream throws: the catch block, up to the sleep or to
\* the final error chunk.
Throw(errorMessage) ==
    /\ pc = "streaming"
    /\ IF ShouldRetry(errorMessage, attempt)
       THEN /\ currentModelId' =
                   Fallback(errorMessage, useSearch, currentModelId, hasSwitchedModel,
                            attempt).currentModelId
            /\ hasSwitchedModel' =
                   Fallback(errorMessage, useSearch, currentModelId, hasSwitchedModel,
                            attempt).hasSwitchedModel
            /\ trace' = trace
                   \o <<EvError(attempt, errorMessage)>>
                   \o [k \in 1..Len(Fallback(errorMessage, useSearch, currentModelId,
                                             hasSwitchedModel, attempt).chunks) |->
                          EvChunk(attempt,
                                  Fallback(errorMessage, useSearch, currentModelId,
                                           hasSwitchedModel, attempt).chunks[k],
                                  "notice")]
                   \o <<EvSleep(attempt, Delay(attempt))>>
            /\ pc' = "sleeping"
       ELSE /\ trace' = trace
                   \o <<EvError(attempt, errorMessage),
                        EvChunk(attempt, ErrorMarker \o finalErrorMsg(errorMessage), "error")>>
            /\ pc' = "failed"
            /\ UNCHANGED <<currentModelId, hasSwitchedModel>>
    /\ UNCHANGED <<args, attempt, fullText>>
    /\ Callbacks

WakeNeverResolved ==
    /\ pc = "sleeping"
    /\ UNCHANGED vars

\* The sleep ends: attempt++; continue.
Wake ==
    /\ pc = "sleeping"
    /\ attempt' = attempt + 1
    /\ pc' = "attempting"
    /\ trace' = Append(trace, EvWake(attempt))
    /\ UNCHANGED <<args, currentModelId, hasSwitchedModel, fullText>>
    /\ Callbacks

Next ==
    \/ Request
    \/ \E chunk \in Fragments : StreamFragment(chunk)
    \/ StreamEnd
    \/ \E errorMessage \in StreamErrors : Throw(errorMessage)
    \/ Wake

\* Calls whose streams deliver fragments and throw errors of each class.
Spec == Init /\ [][Next]_vars

\* The same calls when every stream eventually ends or throws, every sleep
\* eventually finishes and the code between two awaits runs to its end.
SpecLive ==
    /\ Init
    /\ [][Next]_vars
    /\ WF_vars(Request)
    /\ WF_vars(StreamEnd \/ \E errorMessage \in StreamErrors : Throw(errorMessage))
    /\ WF_vars(Wake)

InitStream == InitWith(CallArgs, BOOLEAN, {Gemini20Flash, Gemini3ProPreview})

NextStream ==
    \/ Request
    \/ \E chunk \in Fragments : StreamFragment(chunk)
    \/ StreamEnd
    \/ \E errorMessage \in {<<"503">>, <<"429">>, <<"Bad Request">>} : Throw(errorMessage)
    \/ Wake

\* The calls of one caller, on streams that deliver every fragment and end,
\* fail for good or fail with an error that is retried.
SpecStream == InitStream /\ [][NextStream]_vars

NextErrors ==
    \/ Request
    \/ StreamEnd
    \/ \E errorMessage \in ErrorTexts : Throw(errorMessage)
    \/ Wake

\* Calls that meet every error text, on streams without fragments.
SpecErrors == Init /\ [][NextErrors]_vars

InitShape == InitWith(ShapeArgs, BOOLEAN, {Gemini3FlashPreview})

NextShape ==
    \/ Request
    \/ StreamEnd
    \/ \E errorMessage \in {<<"Bad Request">>} : Throw(errorMessage)

\* First attempts over every history, new text and attachment list.
SpecShape == InitShape /\ [][NextShape]_vars

\* What the remote API can attach to a fragment: nothing, metadata without
\* a list of chunks, an empty list, a list of complete sources, and a list
\* where a source lacks its uri, its title, both, or the web entry itself.
MetaValues ==
    {NoMeta,
     [present |-> TRUE, hasChunks |-> FALSE, groundingChunks |-> <<>>],
     Meta(<<>>),
     Meta(<<Web(<<"http://a">>, <<"A">>), Web(<<"http://d">>, <<"D">>)>>),
     Meta(<<Web(<<>>, <<"C">>), Web(<<"http://a">>, <<"A">>), NoWeb,
            Web(<<"http://b">>, <<>>), Web(<<>>, <<>>)>>),
     Meta(<<Web(<<>>, <<"C">>), NoWeb>>)}

\* The metadata of the fragment itself, read when the candidate has none.
TopMetaValues ==
    {NoMeta,
     Meta(<<Web(<<"http://a">>, <<"A">>), Web(<<"http://d">>, <<"D">>)>>),
     Meta(<<Web(<<>>, <<"C">>), NoWeb>>)}

GroundingFragments ==
    [text : {<<>>, <<"x">>}, candidateMeta : MetaValues, groundingMetadata : TopMetaValues]

InitGrounding == InitWith(CallArgs, {TRUE}, {Gemini3FlashPreview})

NextGrounding ==
    \/ Request
    \/ \E chunk \in GroundingFragments : StreamFragment(chunk)
    \/ StreamEnd
    \/ \E errorMessage \in {<<"Bad Request">>} : Throw(errorMessage)

\* First attempts whose fragments carry every shape of grounding metadata.
SpecGrounding == InitGrounding /\ [][NextGrounding]_vars

\* ------------------------------------------------- the controller's steps

\* What localStorage holds under the key of the sessions when the page is
\* first loaded: nothing, a text JSON.parse rejects, an empty list, or a list
\* the save effect wrote earlier.
StoredSession1 ==
    [id |-> 1, title |-> <<"q">>,
     messages |-> <<UserMessage(<<"q">>, <<>>),
                    [role |-> RoleModel, text |-> <<"a">>, isThinking |-> FALSE,
                     attachments |-> <<>>, groundingSources |-> <<>>]>>]
StoredSession2 == [id |-> 2, title |-> NewChatTitle, messages |-> <<>>]

StoredValues ==
    {[kind |-> "none", sessions |-> <<>>],
     [kind |-> "unparsable", sessions |-> <<>>],
     [kind |-> "list", sessions |-> <<>>],
     [kind |-> "list", sessions |-> <<StoredSession1, StoredSession2>>]}

\* The first identifier uuidv4 returns: it differs from every stored one.
FirstFreshId == 3

\* The models of the selector.
SelectableModels == {Gemini3FlashPreview, Gemini20Flash}

\* What the user submits in the input area.
SendInputs ==
    {[text |-> <<"Hello">>, attachments |-> <<>>, useSearch |-> FALSE],
     [text |-> <<>>, attachments |-> <<Att1>>, useSearch |-> TRUE],
     [text |-> <<" ">>, attachments |-> <<>>, useSearch |-> FALSE]}

\* What the remote API throws and streams in the controller's specification.
ControllerErrors == {<<"Bad Request">>}
ControllerFragments ==
    {[text |-> <<"x">>, candidateMeta |-> NoMeta, groundingMetadata |-> NoMeta],
     [text |-> <<>>,
      candidateMeta |-> Meta(<<Web(<<"http://a">>, <<"A">>)>>),
      groundingMetadata |-> NoMeta]}

\* useState: the state of the first render, before any effect. DEFAULT_MODEL
\* is one of the models of the selector.
InitWithStored(storedValues, storedModels, defaultModels) ==
    /\ sessions = <<>>
    /\ currentSessionId = Null
    /\ isLoading = FALSE
    /\ defaultModel \in defaultModels
    /\ selectedModelId = defaultModel
    /\ rendered = [sessions |-> <<>>, isLoading |-> FALSE]
    /\ callSessionId = Null
    /\ nextId = FirstFreshId
    /\ mounted = FALSE
    /\ turns = 0
    /\ localStorage \in [sessions : storedValues, model : storedModels]
    /\ timer = NoTimer
    /\ loads = 0
    /\ op = Op("init", Null, Null)
    /\ history = <<>>
    /\ newMessage = <<>>
    /\ attachments = <<>>
    /\ useSearch = FALSE
    /\ modelId = <<>>
    /\ attempt = 0
    /\ currentModelId = <<>>
    /\ hasSwitchedModel = FALSE
    /\ fullText = <<>>
    /\ pc = "idle"
    /\ trace = <<>>

InitController ==
    InitWithStored(StoredValues, SelectableModels \cup {<<>>}, SelectableModels)

\* The points where the browser runs another task: no call is in flight, or
\* the call awaits the stream or the timer. Everything a handler or a step of
\* the call does up to its next await runs without interruption.
AtTaskBoundary == pc \in {"idle", "streaming", "sleeping"}

\* The effects of the first render: the load effect reads the two items of
\* localStorage (the model is <<>> when its key is absent), and the save
\* effect sets its timeout on the list the load effect made.
Mount ==
    /\ ~mounted
    /\ pc = "idle"
    /\ mounted' = TRUE
    /\ IF localStorage.sessions.kind = "list" /\ Len(localStorage.sessions.sessions) > 0
       THEN /\ sessions' = localStorage.sessions.sessions
            /\ currentSessionId' = localStorage.sessions.sessions[1].id
            /\ nextId' = nextId
       ELSE /\ sessions' = <<newSession(nextId)>>
            /\ currentSessionId' = nextId
            /\ nextId' = nextId + 1
    /\ rendered' = [sessions |-> sessions', isLoading |-> isLoading]
    /\ timer' = setTimeout(sessions')
    /\ selectedModelId' =
           IF localStorage.model # <<>> THEN localStorage.model ELSE selectedModelId
    /\ op' = Op("mount", Null, IF nextId' = nextId THEN Null ELSE nextId)
    /\ UNCHANGED <<call, isLoading, callSessionId, turns, store>>

handleModelChange(id) ==
    /\ mounted
    /\ AtTaskBoundary
    /\ selectedModelId' = id
    /\ localStorage' = [localStorage EXCEPT !.model = id]
    /\ op' = Op("model", Null, Null)
    /\ UNCHANGED <<call, sessions, currentSessionId, isLoading, rendered, callSessionId,
                   nextId, mounted, turns, timer, defaultModel, loads>>

\* onSelectSession = setCurrentSessionId, on a session the sidebar shows.
selectSession(id) ==
    /\ mounted
    /\ AtTaskBoundary
    /\ id \in Ids(rendered.sessions)
    /\ currentSessionId' = id
    /\ op' = Op("select", id, Null)
    /\ UNCHANGED <<call, sessions, isLoading, selectedModelId, rendered, callSessionId,
                   nextId, mounted, turns, timer, store>>

\* The updates of a click are rendered before the next task: the updater is
\* applied to the state and to what is rendered, and the save effect of that
\* render clears its timeout and sets it again.
createNewSession ==
    /\ mounted
    /\ AtTaskBoundary
    /\ nextId < FirstFreshId + 1 + MaxCreated
    /\ sessions' = <<newSession(nextId)>> \o sessions
    /\ rendered' = [rendered EXCEPT !.sessions = <<newSession(nextId)>> \o @]
    /\ currentSessionId' = nextId
    /\ nextId' = nextId + 1
    /\ timer' = setTimeout(rendered'.sessions)
    /\ op' = Op("create", nextId, nextId)
    /\ UNCHANGED <<call, isLoading, selectedModelId, callSessionId, mounted, turns, store>>

\* sessions.filter(s => s.id !== id), on the sessions of the last render.
updatedSessions(id) == SelectSeq(rendered.sessions, LAMBDA s : s.id # id)

deleteSessionLeavesEmpty(id) ==
    /\ mounted
    /\ AtTaskBoundary
    /\ id \in Ids(rendered.sessions)
    /\ IF updatedSessions(id) = <<>>
       THEN /\ sessions' = <<>>
            /\ currentSessionId' = Null
            /\ nextId' = nextId
       ELSE /\ sessions' = updatedSessions(id)
            /\ currentSessionId' =
                   IF currentSessionId = id THEN updatedSessions(id)[1].id
                   ELSE currentSessionId
            /\ nextId' = nextId
    /\ rendered' = [rendered EXCEPT !.sessions = sessions']
    /\ timer' = setTimeout(rendered'.sessions)
    /\ op' = Op("delete", id, IF nextId' = nextId THEN Null ELSE nextId)
    /\ UNCHANGED <<call, isLoading, selectedModelId, callSessionId, mounted, turns, store>>

deleteSessionKeepsActive(id) ==
    /\ mounted
    /\ AtTaskBoundary
    /\ id \in Ids(rendered.sessions)
    /\ IF updatedSessions(id) = <<>>
       THEN /\ nextId < FirstFreshId + 1 + MaxCreated
            /\ sessions' = <<newSession(nextId)>>
            /\ currentSessionId' = nextId
            /\ nextId' = nextId + 1
       ELSE /\ sessions' = updatedSessions(id)
            /\ currentSessionId' = currentSessionId
            /\ nextId' = nextId
    /\ rendered' = [rendered EXCEPT !.sessions = sessions']
    /\ timer' = setTimeout(rendered'.sessions)
    /\ op' = Op("delete", id, IF nextId' = nextId THEN Null ELSE nextId)
    /\ UNCHANGED <<call, isLoading, selectedModelId, callSessionId, mounted, turns, store>>

deleteSession(id) ==
    /\ mounted
    /\ AtTaskBoundary
    /\ id \in Ids(rendered.sessions)
    /\ IF updatedSessions(id) = <<>>
       THEN /\ nextId < FirstFreshId + 1 + MaxCreated
            /\ sessions' = <<newSession(nextId)>>
            /\ currentSessionId' = nextId
            /\ nextId' = nextId + 1
       ELSE /\ sessions' = updatedSessions(id)
            /\ currentSessionId' =
                   IF currentSessionId = id THEN updatedSessions(id)[1].id
                   ELSE currentSessionId
            /\ nextId' = nextId
    /\ rendered' = [rendered EXCEPT !.sessions = sessions']
    /\ timer' = setTimeout(rendered'.sessions)
    /\ op' = Op("delete", id, IF nextId' = nextId THEN Null ELSE nextId)
    /\ UNCHANGED <<call, isLoading, selectedModelId, callSessionId, mounted, turns, store>>

RenderKeepsTimeout ==
    /\ AtTaskBoundary
    /\ rendered # [sessions |-> sessions, isLoading |-> isLoading]
    /\ rendered' = [sessions |-> sessions, isLoading |-> isLoading]
    /\ timer' = timer
    /\ op' = Op("render", Null, Null)
    /\ UNCHANGED <<call, sessions, currentSessionId, isLoading, selectedModelId,
                   callSessionId, nextId, mounted, turns, store>>

\* React renders the updates queued by the callbacks and the finally block.
\* Their updaters make a new list, so that the save effect runs again.
Render ==
    /\ AtTaskBoundary
    /\ rendered # [sessions |-> sessions, isLoading |-> isLoading]
    /\ rendered' = [sessions |-> sessions, isLoading |-> isLoading]
    /\ timer' = setTimeout(sessions)
    /\ op' = Op("render", Null, Null)
    /\ UNCHANGED <<call, sessions, currentSessionId, isLoading, selectedModelId,
                   callSessionId, nextId, mounted, turns, store>>

\* processResponse up to the first await of the call: isLoading is set and
\* streamGeminiResponse is entered with the callbacks of this render.
processResponse(hist, text, atts, search) ==
    /\ isLoading' = TRUE
    /\ callSessionId' = currentSessionId
    /\ history' = hist
    /\ newMessage' = text
    /\ attachments' = atts
    /\ useSearch' = search
    /\ modelId' = selectedModelId
    /\ attempt' = 0
    /\ currentModelId' = selectedModelId
    /\ hasSwitchedModel' = FALSE
    /\ fullText' = <<>>
    /\ pc' = "attempting"
    /\ trace' = <<>>
    /\ turns' = turns + 1

handleSendMessageAfterAppend(text, atts, search) ==
    /\ pc = "idle"
    /\ IF currentSessionId = Null
       THEN /\ op' = Op("send", Null, Null)
            /\ UNCHANGED <<call, sessions, controller>>
       ELSE /\ turns < MaxTurns
            /\ sessions' = sendUpdate(sessions, currentSessionId, text, atts)
            /\ rendered' =
                   [sessions |-> sendUpdate(rendered.sessions, currentSessionId, text, atts),
                    isLoading |-> TRUE]
            /\ processResponse(currentSessionMessages(sessions', currentSessionId),
                               text, atts, search)
            /\ timer' = setTimeout(rendered'.sessions)
            /\ op' = Op("send", currentSessionId, Null)
            /\ UNCHANGED <<currentSessionId, selectedModelId, nextId, mounted, store>>

handleSendMessageRendersLater(text, atts, search) ==
    /\ pc = "idle"
    /\ IF currentSessionId = Null
       THEN /\ op' = Op("send", Null, Null)
            /\ UNCHANGED <<call, sessions, controller>>
       ELSE /\ turns < MaxTurns
            /\ sessions' = sendUpdate(sessions, currentSessionId, text, atts)
            /\ rendered' =
                   [sessions |-> sendUpdate(rendered.sessions, currentSessionId, text, atts),
                    isLoading |-> rendered.isLoading]
            /\ processResponse(currentSessionMessages(rendered.sessions, currentSessionId),
                               text, atts, search)
            /\ timer' = setTimeout(rendered'.sessions)
            /\ op' = Op("send", currentSessionId, Null)
            /\ UNCHANGED <<currentSessionId, selectedModelId, nextId, mounted, store>>

handleSendMessage(text, atts, search) ==
    /\ pc = "idle"
    /\ IF currentSessionId = Null
       THEN /\ op' = Op("send", Null, Null)
            /\ UNCHANGED <<call, sessions, controller>>
       ELSE /\ turns < MaxTurns
            /\ sessions' = sendUpdate(sessions, currentSessionId, text, atts)
            /\ rendered' =
                   [sessions |-> sendUpdate(rendered.sessions, currentSessionId, text, atts),
                    isLoading |-> TRUE]
            /\ processResponse(currentSessionMessages(rendered.sessions, currentSessionId),
                               text, atts, search)
            /\ timer' = setTimeout(rendered'.sessions)
            /\ op' = Op("send", currentSessionId, Null)
            /\ UNCHANGED <<currentSessionId, selectedModelId, nextId, mounted, store>>

handleContinue ==
    /\ pc = "idle"
    /\ IF currentSessionId = Null
       THEN /\ op' = Op("continue", Null, Null)
            /\ UNCHANGED <<call, sessions, controller>>
       ELSE /\ turns < MaxTurns
            /\ sessions' = continueUpdate(sessions, currentSessionId)
            /\ rendered' =
                   [sessions |-> continueUpdate(rendered.sessions, currentSessionId),
                    isLoading |-> TRUE]
            /\ processResponse(currentSessionMessages(rendered.sessions, currentSessionId),
                               continueText, <<>>, FALSE)
            /\ timer' = setTimeout(rendered'.sessions)
            /\ op' = Op("continue", currentSessionId, Null)
            /\ UNCHANGED <<currentSessionId, selectedModelId, nextId, mounted, store>>

\* text.trim() is empty.
Blank(text) == \A i \in 1..Len(text) : text[i] = " "

\* InputArea.handleSend: nothing is sent without text and attachment, or
\* while the rendered isLoading is true.
handleSend(text, atts, search) ==
    /\ ~((Blank(text) /\ Len(atts) = 0) \/ rendered.isLoading)
    /\ handleSendMessage(text, atts, search)

\* The button of MessageBubble: shown under the last message of the rendered
\* current session when it is a MODEL message, not thinking, and the rendered
\* isLoading is false.
ContinueButton ==
    /\ currentSessionMessages(rendered.sessions, currentSessionId) # <<>>
    /\ Last(currentSessionMessages(rendered.sessions, currentSessionId)).role # RoleUser
    /\ ~rendered.isLoading
    /\ ~Last(currentSessionMessages(rendered.sessions, currentSessionId)).isThinking
    /\ handleContinue

\* The handlers of the first render, called before the load effect has run.
FirstRender ==
    /\ ~mounted
    /\ \/ \E in \in SendInputs : handleSendMessage(in.text, in.attachments, in.useSearch)
       \/ handleContinue

\* The call has returned: the finally block of processResponse. The
\* arguments and locals of the call are gone.
Finally ==
    /\ pc \in {"succeeded", "failed"}
    /\ isLoading' = FALSE
    /\ sessions' = finalUpdate(sessions, callSessionId)
    /\ pc' = "idle"
    /\ history' = <<>>
    /\ newMessage' = <<>>
    /\ attachments' = <<>>
    /\ useSearch' = FALSE
    /\ modelId' = <<>>
    /\ attempt' = 0
    /\ currentModelId' = <<>>
    /\ hasSwitchedModel' = FALSE
    /\ fullText' = <<>>
    /\ trace' = <<>>
    /\ callSessionId' = Null
    /\ op' = Op("finally", callSessionId, Null)
    /\ UNCHANGED <<currentSessionId, selectedModelId, rendered, nextId, mounted, turns,
                   timer, store>>

NextController ==
    \/ Mount
    \/ FirstRender
    \/ \E id \in SelectableModels : handleModelChange(id)
    \/ \E id \in 1..(FirstFreshId + MaxCreated) : selectSession(id)
    \/ createNewSession
    \/ \E id \in 1..(FirstFreshId + MaxCreated) : deleteSession(id)
    \/ \E in \in SendInputs : handleSend(in.text, in.attachments, in.useSearch)
    \/ ContinueButton
    \/ Render
    \/ Request
    \/ \E chunk \in ControllerFragments : StreamFragment(chunk)
    \/ StreamEnd
    \/ \E errorMessage \in ControllerErrors : Throw(errorMessage)
    \/ Finally

\* The controller from its first render on, with the calls it makes.
SpecController == InitController /\ [][NextController]_vars

\* Sends and continues in two stored sessions, with the user selecting and
\* deleting sessions during the generations.
InitTurn ==
    InitWithStored({Item(<<StoredSession1, StoredSession2>>)}, {<<>>}, {Gemini3FlashPreview})

NextTurn ==
    \/ Mount
    \/ \E id \in 1..(FirstFreshId + MaxCreated) : selectSession(id)
    \/ \E id \in 1..(FirstFreshId + MaxCreated) : deleteSession(id)
    \/ \E in \in SendInputs : handleSend(in.text, in.attachments, in.useSearch)
    \/ ContinueButton
    \/ Render
    \/ Request
    \/ \E chunk \in ControllerFragments : StreamFragment(chunk)
    \/ StreamEnd
    \/ \E errorMessage \in ControllerErrors : Throw(errorMessage)
    \/ Finally

SpecTurn == InitTurn /\ [][NextTurn]_vars

\* ------------------------------------------------------- the session store

\* Time passes while the timeout of the save effect is pending, up to the
\* moment it is due.
Tick ==
    /\ AtTaskBoundary
    /\ timer.pending
    /\ timer.age < DebounceMs
    /\ timer' = [timer EXCEPT !.age = @ + DebounceMs \div 2]
    /\ op' = Op("tick", Null, Null)
    /\ UNCHANGED <<call, sessions, currentSessionId, isLoading, selectedModelId, rendered,
                   callSessionId, nextId, mounted, turns, store>>

saveToStorageLosesItem(fails) ==
    /\ AtTaskBoundary
    /\ timer.pending
    /\ timer.age = DebounceMs
    /\ timer' = NoTimer
    /\ localStorage' =
           IF fails THEN [localStorage EXCEPT !.sessions = NoItem]
           ELSE [localStorage EXCEPT !.sessions =
                    IF Len(timer.sessions) > 0 THEN Item(safeSessions(timer.sessions))
                    ELSE Item(<<>>)]
    /\ op' = Op(IF fails THEN "save failed" ELSE "save", Null, Null)
    /\ UNCHANGED <<call, sessions, currentSessionId, isLoading, selectedModelId, rendered,
                   callSessionId, nextId, mounted, turns, defaultModel, loads>>

\* The callback of the timeout, on the sessions of the render that set it.
\* localStorage.setItem throws when fails is true, and the error is caught.
saveToStorage(fails) ==
    /\ AtTaskBoundary
    /\ timer.pending
    /\ timer.age = DebounceMs
    /\ timer' = NoTimer
    /\ localStorage' =
           IF fails THEN localStorage
           ELSE [localStorage EXCEPT !.sessions =
                    IF Len(timer.sessions) > 0 THEN Item(safeSessions(timer.sessions))
                    ELSE Item(<<>>)]
    /\ op' = Op(IF fails THEN "save failed" ELSE "save", Null, Null)
    /\ UNCHANGED <<call, sessions, currentSessionId, isLoading, selectedModelId, rendered,
                   callSessionId, nextId, mounted, turns, defaultModel, loads>>

\* The page is loaded again: the component starts from useState, the
\* timeout and the call in flight are gone, localStorage stays.
Reload ==
    /\ AtTaskBoundary
    /\ mounted
    /\ loads < MaxLoads
    /\ loads' = loads + 1
    /\ sessions' = <<>>
    /\ currentSessionId' = Null
    /\ isLoading' = FALSE
    /\ selectedModelId' = defaultModel
    /\ rendered' = [sessions |-> <<>>, isLoading |-> FALSE]
    /\ callSessionId' = Null
    /\ mounted' = FALSE
    /\ turns' = 0
    /\ timer' = NoTimer
    /\ history' = <<>>
    /\ newMessage' = <<>>
    /\ attachments' = <<>>
    /\ useSearch' = FALSE
    /\ modelId' = <<>>
    /\ attempt' = 0
    /\ currentModelId' = <<>>
    /\ hasSwitchedModel' = FALSE
    /\ fullText' = <<>>
    /\ pc' = "idle"
    /\ trace' = <<>>
    /\ op' = Op("load", Null, Null)
    /\ UNCHANGED <<nextId, localStorage, defaultModel>>

\* A browser that holds nothing under the two keys.
InitStore == InitWithStored({NoItem}, {<<>>}, {Gemini3FlashPreview})

\* What the remote API streams in the specification of the store.
StoreFragments == {[text |-> <<"x">>, candidateMeta |-> NoMeta, groundingMetadata |-> NoMeta]}

NextStore ==
    \/ Mount
    \/ createNewSession
    \/ \E id \in 1..(FirstFreshId + MaxCreated + MaxLoads) : deleteSession(id)
    \/ \E in \in SendInputs : handleSend(in.text, in.attachments, in.useSearch)
    \/ ContinueButton
    \/ Render
    \/ Request
    \/ \E chunk \in StoreFragments : StreamFragment(chunk)
    \/ StreamEnd
    \/ \E errorMessage \in ControllerErrors : Throw(errorMessage)
    \/ Finally
    \/ Tick
    \/ \E fails \in BOOLEAN : saveToStorage(fails)
    \/ Reload

\* The controller with its persistent store, over the loads of the page.
SpecStore == InitStore /\ [][NextStore]_vars

\* The writes of one load of the page: sends and deletes with the timeout
\* of the save effect running.
NextSave ==
    \/ Mount
    \/ \E id \in 1..(FirstFreshId + MaxCreated) : deleteSession(id)
    \/ \E in \in SendInputs : handleSend(in.text, in.attachments, in.useSearch)
    \/ Render
    \/ Request
    \/ \E chunk \in StoreFragments : StreamFragment(chunk)
    \/ StreamEnd
    \/ Finally
    \/ Tick
    \/ \E fails \in BOOLEAN : saveToStorage(fails)

SpecSave == InitStore /\ [][NextSave]_vars

\* What the user sends in the specification of the active session.
ActiveInputs == {[text |-> <<"Hello">>, attachments |-> <<>>, useSearch |-> FALSE]}

NextActive ==
    \/ Mount
    \/ \E id \in 1..(FirstFreshId + MaxCreated) : selectSession(id)
    \/ createNewSession
    \/ \E id \in 1..(FirstFreshId + MaxCreated) : deleteSession(id)
    \/ \E in \in ActiveInputs : handleSend(in.text, in.attachments, in.useSearch)
    \/ ContinueButton
    \/ Render
    \/ Request
    \/ StreamEnd
    \/ Finally

\* Creates, deletes and selections of sessions around one generation,
\* starting from two stored sessions.
SpecActive == InitTurn /\ [][NextActive]_vars

\* A send with search in a fresh session, on streams that deliver text and
\* sources and throw errors that are retried or final.
RetryInputs == {[text |-> <<"Hello">>, attachments |-> <<>>, useSearch |-> TRUE]}
RetryErrors == {<<"503">>, <<"Bad Request">>}

NextRetry ==
    \/ Mount
    \/ \E in \in RetryInputs : handleSend(in.text, in.attachments, in.useSearch)
    \/ Render
    \/ Request
    \/ \E chunk \in ControllerFragments : StreamFragment(chunk)
    \/ StreamEnd
    \/ \E errorMessage \in RetryErrors : Throw(errorMessage)
    \/ Wake
    \/ Finally

\* The controller with a call that retries.
SpecRetry == InitStore /\ [][NextRetry]_vars

\* ------------------------------------------------------------- the titles

\* A text of n characters.
Chars(n) == [k \in 1..n |-> "a"]

\* Sends whose text is absent, short, as long as a title and longer.
TitleInputs ==
    {[text |-> <<>>, attachments |-> <<Att1>>, useSearch |-> FALSE],
     [text |-> <<"Hello">>, attachments |-> <<>>, useSearch |-> FALSE],
     [text |-> Chars(TitleLen), attachments |-> <<>>, useSearch |-> FALSE],
     [text |-> Chars(TitleLen + 1), attachments |-> <<>>, useSearch |-> FALSE]}

\* A browser that holds a session with an exchange and one without messages.
InitTitle ==
    InitWithStored({Item(<<StoredSession1, StoredSession2>>)}, {<<>>}, {Gemini3FlashPreview})

NextTitle ==
    \/ Mount
    \/ \E id \in 1..(FirstFreshId + MaxCreated) : selectSession(id)
    \/ \E in \in TitleInputs : handleSend(in.text, in.attachments, in.useSearch)
    \/ ContinueButton
    \/ Render
    \/ Request
    \/ \E chunk \in StoreFragments : StreamFragment(chunk)
    \/ StreamEnd
    \/ Finally

\* Sends and continues in sessions with and without messages.
SpecTitle == InitTitle /\ [][NextTitle]_vars

\* ------------------------------------------------- vocabulary of the claims

QuotaWords == {"429", "quota", "RESOURCE_EXHAUSTED"}
OverloadWords == {"503", "Overloaded"}

HasWord(msg, words) == \E i \in 1..Len(msg) : msg[i] \in words

\* The three classes of an error text; a text with signals of both kinds
\* counts as Quota.
QuotaClass(msg) == HasWord(msg, QuotaWords)
OverloadClass(msg) == HasWord(msg, OverloadWords) /\ ~HasWord(msg, QuotaWords)
OtherClass(msg) == ~HasWord(msg, QuotaWords \cup OverloadWords)

Idx(kind) == {i \in 1..Len(trace) : trace[i].ev = kind}

IsNotice(e) == e.ev = "onChunk" /\ e.text \in Notices
IsErrorChunk(e) ==
    e.ev = "onChunk" /\ Len(e.text) >= 1 /\ SubSeq(e.text, 1, 1) = ErrorMarker
NoticeIdx == {i \in 1..Len(trace) : IsNotice(trace[i])}

\* The model of the request of attempt n, and the model the call holds for
\* the attempt after it.
ModelOf(n) == trace[CHOOSE i \in Idx("request") : trace[i].attempt = n].model
ModelNext(n) ==
    IF \E i \in Idx("request") : trace[i].attempt = n + 1
    THEN ModelOf(n + 1)
    ELSE currentModelId

\* The attempts that ended in a retry.
Retried == {trace[i].attempt : i \in Idx("sleep")}
Switches == {n \in Retried : ModelOf(n) # ModelNext(n)}

\* ------------------------------------------------------------------- claims

\* C1: one call issues at most 4 requests: the attempt counter starts at 0,
\* only ever increases by 1 and never exceeds 3, so at most 3 retries happen.
C1_AtMostFourRequests ==
    /\ attempt = 0
    /\ [](/\ Count("request") <= 4
          /\ attempt \in 0..3
          /\ Count("sleep") <= 3
          /\ Count("request") <= attempt + 1)
    /\ [][attempt' = attempt \/ attempt' = attempt + 1]_vars

C1_Witness == pc = "failed" /\ Count("request") = 4 /\ attempt = 3

\* C2: an error whose text carries none of the five signals, thrown at any
\* attempt, is followed by the error chunk and nothing else: no sleep, no
\* further request, and the call has returned.
C2_OtherErrorIsTerminal ==
    \A i \in Idx("error") :
        OtherClass(trace[i].message) =>
            /\ pc = "failed"
            /\ Len(trace) = i + 1
            /\ IsErrorChunk(trace[i + 1])

C2_Witness ==
    \E i \in Idx("error") :
        OtherClass(trace[i].message) /\ trace[i].attempt = 3 /\ pc = "failed"

\* C3: the model identifier of the requests changes at most once in a call,
\* and never back or to a third model.
C3_AtMostOneSwitch ==
    /\ Cardinality(Switches) <= 1
    /\ Cardinality({trace[i].model : i \in Idx("request")} \cup {currentModelId}) <= 2
    /\ \A i \in Idx("request") : trace[i].model \in {modelId, currentModelId}

C3_Witness ==
    /\ pc = "failed"
    /\ Count("request") = 4
    /\ Switches = {0}
    /\ \A i \in Idx("error") : ~OtherClass(trace[i].message)

\* C4: a Quota or Overload error thrown at attempt 3 is not retried: the call
\* ends with one onChunk, the marker followed by the template of the class.
C4_LastAttemptErrorIsFinal ==
    \A i \in Idx("error") :
        (trace[i].attempt = 3 /\ ~OtherClass(trace[i].message)) =>
            /\ pc = "failed"
            /\ Len(trace) = i + 1
            /\ trace[i + 1].ev = "onChunk"
            /\ trace[i + 1].text =
                   ErrorMarker \o (IF QuotaClass(trace[i].message)
                                   THEN QuotaTemplate
                                   ELSE OverloadTemplate)
            /\ Cardinality({k \in 1..Len(trace) : IsErrorChunk(trace[k])}) = 1

C4_Witness ==
    /\ pc = "failed"
    /\ \E i \in Idx("error") :
          trace[i].attempt = 3 /\ OverloadClass(trace[i].message)

\* C5: the wait after failed attempt n is 1500 * 2^n ms (1500, 3000, 6000),
\* whatever the error and the model switch; a call waits at most 10500 ms.
C5_ExponentialBackoff ==
    /\ \A i \in Idx("sleep") :
          /\ trace[i].ms = 1500 * (2 ^ trace[i].attempt)
          /\ trace[i].attempt \in 0..2
          /\ trace[i].attempt = Cardinality({k \in Idx("sleep") : k < i})
    /\ SumSeq([k \in 1..Count("sleep") |-> Events("sleep")[k].ms]) <= 10500
    /\ \A k \in 1..Count("sleep") : Events("sleep")[k].ms = <<1500, 3000, 6000>>[k]

C5_Witness == Count("sleep") = 3 /\ hasSwitchedModel /\ pc = "failed"

\* The error that ended attempt n.
ErrorOf(n) == trace[CHOOSE i \in Idx("error") : trace[i].attempt = n].message

\* C6 as stated: the model changes only in response to a Quota error while
\* useSearch is true; an Overload error, or any error of a call with useSearch
\* false, never changes the model of the later attempts.
C6_SwitchOnlyOnQuotaWithSearch ==
    \A n \in Switches : useSearch /\ QuotaClass(ErrorOf(n))

\* C6 amended: the model changes only in response to a Quota error while
\* useSearch is true on a model whose identifier contains 'gemini-3-flash', or
\* in response to a Quota or Overload error while the model identifier
\* contains 'gemini-2.0'; on any other model an Overload error, or any error
\* of a call with useSearch false, never changes the model.
C6_SwitchOnlyByFallbackRules ==
    \A n \in Switches :
        /\ ~OtherClass(ErrorOf(n))
        /\ \/ /\ useSearch
              /\ QuotaClass(ErrorOf(n))
              /\ Includes(ModelOf(n), <<"gemini-", "3-flash">>)
              /\ ModelNext(n) = <<"gemini-", "2.0", "-flash">>
           \/ /\ Includes(ModelOf(n), <<"gemini-", "2.0">>)
              /\ ModelNext(n) = <<"gemini-", "3-flash", "-preview">>

C6_Witness ==
    /\ ~useSearch
    /\ Switches = {0}
    /\ OverloadClass(ErrorOf(0))
    /\ pc = "succeeded"

\* The scenario of C7: the first attempt throws an Overload error and the
\* second attempt succeeds.
C7_Scenario ==
    /\ pc = "succeeded"
    /\ Count("error") = 1
    /\ OverloadClass(ErrorOf(0))

\* C7 as stated: in that scenario exactly one retry occurs and exactly one
\* informational onChunk is delivered, after the error and before any chunk
\* of the successful stream.
C7_OneRetryOneNotice ==
    C7_Scenario =>
        /\ Count("sleep") = 1
        /\ Count("request") = 2
        /\ Cardinality(NoticeIdx) = 1
        /\ \A k \in NoticeIdx :
              /\ \A i \in Idx("error") : i < k
              /\ \A i \in 1..Len(trace) :
                    (trace[i].ev = "onChunk" /\ trace[i].attempt = 1) => k < i

\* C7 amended: in that scenario exactly one retry occurs; when the model
\* identifier contains 'gemini-2.0' exactly one informational onChunk, the
\* notice of the switch to Gemini 3.0 Flash, is delivered after the error and
\* before the wait and any chunk of the successful stream; otherwise the
\* retry is silent and no informational onChunk is delivered.
C7_OneRetrySilentUnlessSwitch ==
    C7_Scenario =>
        /\ Count("sleep") = 1
        /\ Count("request") = 2
        /\ IF Includes(modelId, <<"gemini-", "2.0">>)
           THEN /\ Cardinality(NoticeIdx) = 1
                /\ \A k \in NoticeIdx :
                      /\ trace[k].text = NoticeSwitchTo30
                      /\ trace[k - 1].ev = "error"
                      /\ trace[k + 1].ev = "sleep"
                      /\ \A i \in 1..Len(trace) :
                            (trace[i].ev = "onChunk" /\ trace[i].attempt = 1) => k < i
           ELSE NoticeIdx = {}

C7_Witness ==
    /\ C7_Scenario
    /\ ~Includes(modelId, <<"gemini-", "2.0">>)
    /\ \E i \in 1..Len(trace) : trace[i].ev = "onChunk" /\ trace[i].attempt = 1
    /\ \E i \in 1..Len(trace) : trace[i].ev = "onChunk" /\ trace[i].attempt = 0

\* The scenario of C8: useSearch is true and each of the four attempts fails
\* with a Quota error.
C8_Scenario ==
    /\ useSearch
    /\ pc = "failed"
    /\ Count("error") = 4
    /\ \A i \in Idx("error") : QuotaClass(trace[i].message)

\* What every call of that scenario does: 4 requests, at most one switch, and
\* the marker with the Quota template as the last onChunk.
C8_Ending ==
    /\ Count("request") = 4
    /\ Cardinality(Switches) <= 1
    /\ trace[Len(trace)].ev = "onChunk"
    /\ trace[Len(trace)].text = ErrorMarker \o QuotaTemplate

\* The first Quota error switches the model and its retry announces it.
C8_FirstErrorSwitches ==
    /\ Switches = {0}
    /\ \E k \in NoticeIdx :
          /\ trace[k].attempt = 0
          /\ trace[k].text \in {NoticeSwitchTo20, NoticeSwitchTo30}
    /\ \A k \in NoticeIdx :
          trace[k].attempt > 0 => trace[k].text = NoticeRetry

\* C8 as stated: whatever the initial modelId, the first Quota error switches
\* the model once and that retry announces the switch, exactly 4 requests are
\* made, no second switch happens and the last onChunk is the marker followed
\* by the Quota template.
C8_QuotaExhaustion ==
    C8_Scenario => (C8_FirstErrorSwitches /\ C8_Ending)

\* C8 amended: the same, when the initial modelId contains 'gemini-3-flash'
\* or 'gemini-2.0'; for any other initial modelId no switch happens at all
\* and the first retry is silent, and the call still makes exactly 4 requests
\* and ends with the marker followed by the Quota template.
C8_QuotaExhaustionByModel ==
    C8_Scenario =>
        /\ C8_Ending
        /\ IF \/ Includes(modelId, <<"gemini-", "3-flash">>)
              \/ Includes(modelId, <<"gemini-", "2.0">>)
           THEN C8_FirstErrorSwitches
           ELSE /\ Switches = {}
                /\ \A k \in NoticeIdx : trace[k].attempt > 0 /\ trace[k].text = NoticeRetry

C8_Witness ==
    /\ C8_Scenario
    /\ Includes(modelId, <<"gemini-", "3-flash">>)
    /\ Switches = {0}

\* C9 as stated: every retry delivers an informational onChunk before its
\* wait starts.
C9_EveryRetryAnnounced ==
    \A i \in Idx("sleep") : IsNotice(trace[i - 1])

\* C9 amended: a retry that switches the model, and every retry after the
\* first (attempt 1 or 2), delivers exactly one informational onChunk between
\* the error and the start of the wait; a first retry (attempt 0) that keeps
\* the model delivers none.
C9_RetryAnnouncedUnlessFirstSilent ==
    LET switched == Switches IN
    \A i \in Idx("sleep") :
        IF trace[i].attempt > 0 \/ trace[i].attempt \in switched
        THEN /\ IsNotice(trace[i - 1])
             /\ trace[i - 1].attempt = trace[i].attempt
             /\ trace[i - 2].ev = "error"
        ELSE trace[i - 1].ev = "error"

C9_Witness ==
    /\ Count("sleep") = 3
    /\ Cardinality(NoticeIdx) = 3
    /\ Switches = {0}
    /\ \E i \in 1..Len(trace) : trace[i].ev = "onChunk" /\ trace[i].src = "stream"

\* The history messages that are sent: not thinking, with a non-empty text.
KeptIdx == {i \in 1..Len(history) : history[i].isThinking = FALSE /\ Len(history[i].text) > 0}

\* The place of kept message i among the turns.
TurnOf(i) == Cardinality({k \in KeptIdx : k < i}) + 1

IsAttachmentPart(part) == "inlineData" \in DOMAIN part

\* C10: the turns sent upstream are exactly the history messages with
\* isThinking false and a non-empty text, in their order, each as a single
\* text part, followed by the new user turn; attachment parts appear only in
\* that final turn, one per element of the attachments argument, never in a
\* history turn.
C10_HistoryFilteredAttachmentsLast ==
    \A r \in Idx("request") :
        LET c == trace[r].contents IN
        /\ Len(c) = Cardinality(KeptIdx) + 1
        /\ \A i \in KeptIdx :
              /\ c[TurnOf(i)].role = history[i].role
              /\ c[TurnOf(i)].parts = <<[text |-> history[i].text]>>
        /\ \A t \in 1..(Len(c) - 1) :
              \A k \in 1..Len(c[t].parts) : ~IsAttachmentPart(c[t].parts[k])
        /\ c[Len(c)].role = "user"
        /\ Len(c[Len(c)].parts) >= Len(attachments)
        /\ \A k \in 1..Len(c[Len(c)].parts) :
              IF k <= Len(attachments)
              THEN c[Len(c)].parts[k] =
                       [inlineData |-> [mimeType |-> attachments[k].mimeType,
                                        data |-> attachments[k].data]]
              ELSE ~IsAttachmentPart(c[Len(c)].parts[k])

C10_Witness ==
    /\ Count("request") = 1
    /\ Len(history) = 2
    /\ KeptIdx = {2}
    /\ history[1].isThinking
    /\ history[1].text # <<>>
    /\ history[2].attachments # <<>>
    /\ attachments # <<>>
    /\ newMessage # <<>>

\* The parts of the new user turn of a request that are not attachments.
TextPartsOf(r) ==
    SelectSeq(trace[r].contents[Len(trace[r].contents)].parts,
              LAMBDA part : ~IsAttachmentPart(part))

\* C11: a request carries the search tool exactly when useSearch is true, and
\* the text part of its new turn is the new text followed by the search
\* suffix exactly when useSearch is true and the text is not empty (the bare
\* text when useSearch is false, no text part for an empty text); with an
\* empty history, the text "Hello", no attachments and useSearch false the
\* request is one user turn with the single text part "Hello" and no tools.
C11_SearchToolAndSuffix ==
    \A r \in Idx("request") :
        /\ (trace[r].tools = <<"googleSearch">>) <=> useSearch
        /\ (trace[r].tools = <<>>) <=> ~useSearch
        /\ TextPartsOf(r) =
              IF newMessage = <<>> THEN <<>>
              ELSE IF useSearch THEN <<[text |-> newMessage \o SearchSuffix]>>
              ELSE <<[text |-> newMessage]>>
        /\ (history = <<>> /\ newMessage = <<"Hello">> /\ attachments = <<>> /\ ~useSearch)
              => /\ trace[r].contents = <<[role |-> "user", parts |-> <<[text |-> <<"Hello">>]>>]>>
                 /\ trace[r].tools = <<>>

C11_Witness ==
    /\ Count("request") = 1
    /\ history = <<>>
    /\ newMessage = <<"Hello">>
    /\ attachments = <<>>
    /\ ~useSearch
    /\ pc = "succeeded"

\* The onChunk calls of the stream loop of attempt n.
StreamChunkIdx(n) ==
    {i \in 1..Len(trace) :
        trace[i].ev = "onChunk" /\ trace[i].src = "stream" /\ trace[i].attempt = n}

\* The argument of the stream onChunk of the same attempt before i (the
\* empty text when i is the first).
ChunkBefore(i) ==
    LET earlier == {j \in 1..(i - 1) :
                       /\ trace[j].ev = "onChunk"
                       /\ trace[j].src = "stream"
                       /\ trace[j].attempt = trace[i].attempt}
    IN IF earlier = {} THEN <<>> ELSE trace[Max(earlier)].text

\* C12: within one attempt every onChunk argument of the stream loop is the
\* previous one of that attempt followed by the text of the current
\* fragment: the previous argument is a prefix of it and it is never shorter.
C12_ChunksAccumulate ==
    \A n \in 0..3 : \A i \in StreamChunkIdx(n) :
        LET before == ChunkBefore(i) IN
        /\ trace[i - 1].ev = "fragment"
        /\ trace[i].text = before \o trace[i - 1].chunk.text
        /\ SubSeq(trace[i].text, 1, Len(before)) = before
        /\ Len(trace[i].text) >= Len(before)

C12_Witness ==
    /\ Cardinality(StreamChunkIdx(1)) = 2
    /\ \E i \in StreamChunkIdx(1) : trace[i].text = <<"x", "y">>
    /\ pc = "succeeded"

\* The fragments and the stream onChunk calls of attempt n.
FragmentIdx(n) == {i \in 1..Len(trace) : trace[i].ev = "fragment" /\ trace[i].attempt = n}
TextFragmentIdx(n) == {i \in FragmentIdx(n) : trace[i].chunk.text # <<>>}

\* C13 as stated: every attempt has as many onChunk calls of its stream loop
\* as fragments, the fragments without text included.
C13_OneChunkPerFragment ==
    \A n \in 0..3 : Cardinality(StreamChunkIdx(n)) = Cardinality(FragmentIdx(n))

\* C13: onChunk is invoked exactly once, right after its arrival, for each
\* fragment with a non-empty text and not at all for a fragment without
\* text: an attempt with k fragments of which m carry text makes m calls.
C13_OneChunkPerTextFragment ==
    \A n \in 0..3 :
        LET calls == StreamChunkIdx(n)
            withText == TextFragmentIdx(n)
        IN /\ Cardinality(calls) = Cardinality(withText)
           /\ \A i \in FragmentIdx(n) : (i + 1 \in calls) <=> (i \in withText)

C13_Witness ==
    /\ pc = "succeeded"
    /\ Cardinality(FragmentIdx(0)) = 2
    /\ Cardinality(TextFragmentIdx(0)) = 1
    /\ Cardinality(StreamChunkIdx(0)) = 1

\* The grounding entries of a fragment: those of the metadata of its first
\* candidate when the candidate has metadata, else those of the fragment.
EntriesOf(chunk) ==
    IF chunk.candidateMeta.present
    THEN chunk.candidateMeta.groundingChunks
    ELSE chunk.groundingMetadata.groundingChunks

Complete(entry) == entry.web /\ entry.uri # <<>> /\ entry.title # <<>>

\* The onGrounding call made for the fragment at i, if any.
GroundingAfter(i) ==
    {j \in Idx("onGrounding") :
        /\ j > i
        /\ \A k \in (i + 1)..(j - 1) : trace[k].ev = "onChunk"}

\* C14: every source passed to onGrounding has a uri and a title; the sources
\* passed for a fragment are exactly its entries that have both, in their
\* order, the others being dropped; and onGrounding is invoked for a fragment
\* exactly when at least one of its entries has both, never with an empty
\* list.
C14_GroundingFiltered ==
    /\ \A j \in Idx("onGrounding") :
          /\ trace[j].sources # <<>>
          /\ \A k \in 1..Len(trace[j].sources) :
                trace[j].sources[k].uri # <<>> /\ trace[j].sources[k].title # <<>>
          /\ \E i \in Idx("fragment") : j \in GroundingAfter(i)
    /\ \A i \in Idx("fragment") :
          LET kept == SelectSeq(EntriesOf(trace[i].chunk), Complete) IN
          /\ (GroundingAfter(i) # {}) <=> (kept # <<>>)
          /\ Cardinality(GroundingAfter(i)) <= 1
          /\ \A j \in GroundingAfter(i) :
                trace[j].sources =
                    [k \in 1..Len(kept) |-> [uri |-> kept[k].uri, title |-> kept[k].title]]

C14_Witness ==
    /\ pc = "succeeded"
    /\ \E i \in Idx("fragment") :
          /\ Len(EntriesOf(trace[i].chunk)) = 5
          /\ \E j \in GroundingAfter(i) : Len(trace[j].sources) = 1
    /\ \E i \in Idx("fragment") :
          /\ Len(EntriesOf(trace[i].chunk)) = 2
          /\ GroundingAfter(i) = {}

\* The chunks made by the orchestrator itself that begin with the marker.
MarkerIdx ==
    {i \in 1..Len(trace) :
        trace[i].ev = "onChunk" /\ trace[i].src # "stream" /\ IsErrorChunk(trace[i])}

\* C15: when a call fails, by an error of the Other class or by a retryable
\* error at the last attempt, the orchestrator delivers exactly one chunk
\* beginning with the marker, right after the error and as the last callback
\* of the call; a call that succeeds delivers none.
C15_OneErrorChunkLast ==
    LET marked == MarkerIdx IN
    /\ \A i \in 1..Len(trace) :
          (/\ trace[i].ev = "error"
           /\ (OtherClass(trace[i].message) \/ trace[i].attempt = 3)) =>
              /\ pc = "failed"
              /\ marked = {i + 1}
              /\ Len(trace) = i + 1
    /\ pc = "failed" => Cardinality(marked) = 1 /\ Len(trace) \in marked
    /\ pc # "failed" => marked = {}

C15_Witness ==
    /\ pc = "failed"
    /\ Count("sleep") = 3
    /\ QuotaClass(ErrorOf(3))
    /\ Cardinality(Idx("onChunk")) >= 3
    /\ Cardinality(MarkerIdx) = 1

\* C16 as stated: the final message of an error of the Other class is the
\* message field of the embedded payload when the payload parses and has one,
\* and the raw error text in every other case.
C16_UnwrapOrRawText ==
    \A i \in Idx("error") :
        OtherClass(trace[i].message) =>
            LET msg == trace[i].message
                payload == jsonMatch(msg)
                field == JsonGet(JsonGet(payload.text, KeyError), KeyMessage)
            IN trace[i + 1].text =
                   ErrorMarker \o
                   (IF payload.found /\ JsonValid(payload.text) /\ JsonTruthy(field)
                    THEN JsonToText(field)
                    ELSE msg)

\* C17: every call eventually returns, succeeded (its last stream was
\* exhausted without an error) or failed (the error chunk was its last
\* callback), whatever errors its attempts meet.
C17_EveryCallReturns ==
    /\ <>(pc = "succeeded" \/ pc = "failed")
    /\ [](pc = "succeeded" =>
            /\ Count("request") >= 1
            /\ \A i \in Idx("error") : trace[i].attempt < attempt)
    /\ [](pc = "failed" => MarkerIdx = {Len(trace)})
    /\ [][(pc \in {"succeeded", "failed"}) => (pc' = pc)]_vars

C17_Witness ==
    /\ pc = "succeeded"
    /\ Count("sleep") = 3
    /\ Count("fragment") = 2

\* C18: once the load effect has run the session list is never empty, in the
\* state and in what is rendered, whatever is created, deleted, selected,
\* sent or continued; and deleting the only session of the list leaves
\* exactly one session, with a new identifier, the initial title and no
\* message, which is the active session.
C18_SessionsNeverEmpty ==
    /\ [](mounted => Len(sessions) >= 1 /\ Len(rendered.sessions) >= 1)
    /\ [][(op'.name = "delete" /\ Ids(sessions) = {op'.id}) =>
            /\ Len(sessions') = 1
            /\ sessions'[1].id \notin Ids(sessions)
            /\ sessions'[1].title = NewChatTitle
            /\ sessions'[1].messages = <<>>
            /\ currentSessionId' = sessions'[1].id]_vars

C18_Witness ==
    /\ op.name = "delete"
    /\ op.made # Null
    /\ op.made # op.id
    /\ sessions = <<[id |-> op.made, title |-> NewChatTitle, messages |-> <<>>]>>
    /\ currentSessionId = op.made

\* The sessions other than the one with the given id, in their order.
Others(list, id) == SelectSeq(list, LAMBDA s : s.id # id)

\* C19 as stated: a deleteSession(id) that leaves other sessions makes the
\* first of them active when id was active and keeps the active session
\* otherwise, and the sessions left are the other sessions as they were, in
\* their order.
C19_DeleteKeepsTheOthers ==
    [][(op'.name = "delete" /\ Others(sessions, op'.id) # <<>>) =>
        /\ currentSessionId' =
               IF currentSessionId = op'.id THEN Others(sessions, op'.id)[1].id
               ELSE currentSessionId
        /\ sessions' = Others(sessions, op'.id)]_vars

\* Every MODEL message of the list comes right after a USER message.
ModelFollowsUser(list) ==
    \A k \in 1..Len(list) : \A m \in 1..Len(list[k].messages) :
        list[k].messages[m].role = "model" =>
            m > 1 /\ list[k].messages[m - 1].role = "user"

\* C20: handleSendMessage and handleContinue change nothing and start no call
\* when no session is active; otherwise, in one step, they append to the
\* active session the USER message of the turn (the text and attachments
\* passed to the call) and after it a MODEL placeholder with isThinking true
\* and an empty text, and leave the earlier messages and the other sessions
\* as they are; so every MODEL message of a session comes right after a USER
\* message.
C20_SendAppendsPair ==
    /\ [][op'.name \in {"send", "continue"} =>
            IF currentSessionId = Null
            THEN /\ sessions' = sessions
                 /\ rendered' = rendered
                 /\ isLoading' = isLoading
                 /\ pc' = pc
                 /\ trace' = trace
            ELSE /\ Len(sessions') = Len(sessions)
                 /\ \A k \in 1..Len(sessions) :
                       IF sessions[k].id = currentSessionId
                       THEN /\ sessions'[k].id = sessions[k].id
                            /\ Len(sessions'[k].messages) = Len(sessions[k].messages) + 2
                            /\ SubSeq(sessions'[k].messages, 1, Len(sessions[k].messages))
                                   = sessions[k].messages
                            /\ LET user == sessions'[k].messages[Len(sessions[k].messages) + 1]
                                   model == sessions'[k].messages[Len(sessions[k].messages) + 2]
                               IN /\ user.role = "user"
                                  /\ user.text = newMessage'
                                  /\ user.attachments = attachments'
                                  /\ op'.name = "continue" => user.text = <<"Prodolzhi">>
                                  /\ model.role = "model"
                                  /\ model.isThinking
                                  /\ model.text = <<>>
                       ELSE sessions'[k] = sessions[k]]_vars
    /\ [](ModelFollowsUser(sessions) /\ ModelFollowsUser(rendered.sessions))

C20_Witness ==
    /\ op.name = "continue"
    /\ op.id # Null
    /\ currentSessionMessages(sessions, op.id)[3].text = <<"Prodolzhi">>
    /\ currentSessionMessages(sessions, op.id)[4].isThinking
    /\ Len(currentSessionMessages(sessions, op.id)) = 4

\* ------------------------------------------------------------ claims C21-C30

\* The positions <<session, message>> of the messages of a list that have
\* isThinking set.
Thinking(list) ==
    {p \in UNION {{<<k, m>> : m \in 1..Len(list[k].messages)} : k \in 1..Len(list)} :
        list[p[1]].messages[p[2]].isThinking}

\* C21: in every state of the session store at most one message over all
\* sessions has isThinking set, and such a message is a MODEL message and the
\* last message of its session.
C21_AtMostOneThinking ==
    /\ Cardinality(Thinking(sessions)) <= 1
    /\ \A p \in Thinking(sessions) :
          /\ sessions[p[1]].messages[p[2]].role = RoleModel
          /\ p[2] = Len(sessions[p[1]].messages)

\* The MODEL messages of a list.
ModelMessages(list) ==
    {msg \in UNION {{list[k].messages[m] : m \in 1..Len(list[k].messages)} :
                     k \in 1..Len(list)} :
        msg.role = RoleModel}

\* C22: once the generation of a send or continue has ended (no call is in
\* flight and the finally block has run), the placeholder of that send, and so
\* every MODEL message of the sessions, is not thinking and has a text.
C22_PlaceholderFinalised ==
    (mounted /\ pc = "idle") =>
        \A msg \in ModelMessages(sessions) : ~msg.isThinking /\ msg.text # <<>>

\* C23: right after handleSendMessage the history passed to the orchestrator
\* is the list of messages of the active session without the USER message and
\* the placeholder this send appended; right after handleContinue it is the
\* whole prior list, which ends with the MODEL turn being continued, and the
\* new user turn is the fixed continuation prompt.
C23_HistoryIsPriorMessages ==
    /\ (op.name = "send" /\ op.id # Null) =>
          /\ pc = "attempting"
          /\ currentSessionMessages(sessions, op.id)
                 = history \o <<UserMessage(newMessage, attachments), Placeholder>>
    /\ (op.name = "continue" /\ op.id # Null) =>
          /\ pc = "attempting"
          /\ currentSessionMessages(sessions, op.id)
                 = history \o <<UserMessage(continueText, <<>>), Placeholder>>
          /\ history # <<>>
          /\ Last(history).role = RoleModel
          /\ newMessage = continueText
          /\ attachments = <<>>
          /\ ~useSearch

\* A send in a session that has an exchange already.
C23_Witness ==
    /\ op.name = "send"
    /\ op.id # Null
    /\ Len(history) = 2
    /\ newMessage = <<"Hello">>

\* The attachments of the messages of a list.
AttachmentsOf(list) ==
    UNION {{list[k].messages[m].attachments[a] :
               a \in 1..Len(list[k].messages[m].attachments)} :
           <<k, m>> \in UNION {{<<k, m>> : m \in 1..Len(list[k].messages)} :
                               k \in 1..Len(list)}}

\* C24: every list the save effect has written holds each attachment with an
\* empty payload and its name, type and size, and the write leaves the
\* sessions in memory, payloads included, as they were.
C24_SnapshotsRedacted ==
    /\ [](\A att \in AttachmentsOf(localStorage.sessions.sessions) : att.data = "")
    /\ [][op'.name = "save" =>
            /\ sessions' = sessions
            /\ rendered' = rendered
            /\ localStorage'.sessions.sessions = safeSessions(rendered.sessions)
            /\ \A k \in 1..Len(rendered.sessions) :
                 \A m \in 1..Len(rendered.sessions[k].messages) :
                   \A a \in 1..Len(rendered.sessions[k].messages[m].attachments) :
                      LET att == rendered.sessions[k].messages[m].attachments[a]
                          kept == localStorage'.sessions.sessions[k].messages[m].attachments[a]
                      IN  /\ kept.name = att.name
                          /\ kept.mimeType = att.mimeType
                          /\ kept.size = att.size]_vars

\* A write of a list with an attachment whose payload is still in memory.
C24_Witness ==
    /\ op.name = "save"
    /\ AttachmentsOf(localStorage.sessions.sessions) # {}
    /\ \E att \in AttachmentsOf(sessions) : att.data # ""

\* C25: a write of the session list that fails is caught inside the callback
\* of the timeout: the step changes nothing but the timeout, so that the
\* sessions in memory, the active session, the call in flight and the value
\* stored before are as they were, and every later handler finds the state it
\* would have found without the write.
C25_FailedWriteChangesNothing ==
    [][op'.name = "save failed" =>
          /\ UNCHANGED <<sessions, currentSessionId, isLoading, selectedModelId, rendered,
                         callSessionId, nextId, mounted, turns, localStorage, call>>
          /\ timer' = NoTimer]_vars

\* A failed write while an older list is stored and the sessions have changed
\* since.
C25_Witness ==
    /\ op.name = "save failed"
    /\ localStorage.sessions.kind = "list"
    /\ localStorage.sessions.sessions # safeSessions(sessions)
    /\ sessions # <<>>

\* C26: the wait of a retry lies between its sleep and wake events. Every
\* sleep is directly preceded by the error of its attempt or by the one notice
\* delivered for that error, nothing but the wake follows it, and the request
\* of the next attempt follows the wake: no fragment, onChunk or onGrounding
\* lies in the wait, and no stream is open while the call sleeps.
C26_NothingDuringTheWait ==
    /\ (pc = "sleeping") <=> (trace # <<>> /\ Last(trace).ev = "sleep")
    /\ \A j \in Idx("sleep") :
          /\ j > 1
          /\ trace[j - 1].attempt = trace[j].attempt
          /\ \/ trace[j - 1].ev = "error"
             \/ /\ j > 2
                /\ trace[j - 1].ev = "onChunk"
                /\ trace[j - 1].src = "notice"
                /\ trace[j - 2].ev = "error"
                /\ trace[j - 2].attempt = trace[j].attempt
          /\ j < Len(trace) => trace[j + 1] = EvWake(trace[j].attempt)
          /\ j + 1 < Len(trace) =>
                /\ trace[j + 2].ev = "request"
                /\ trace[j + 2].attempt = trace[j].attempt + 1

\* A retry with a notice whose wait is over and whose next request is out.
C26_Witness ==
    \E j \in Idx("sleep") :
        /\ j + 1 < Len(trace)
        /\ trace[j - 1].ev = "onChunk"
        /\ trace[j + 2].ev = "request"

\* Turns whose roles are user, model, user, ... and end with a user turn.
Alternates(cont) ==
    /\ Len(cont) % 2 = 1
    /\ \A k \in 1..Len(cont) :
          cont[k].role = IF k % 2 = 1 THEN "user" ELSE "model"

\* C27: the turns of every request the controller causes alternate between
\* user and model and end with the new user turn, whatever messages the
\* history of the session holds.
C27_TurnsAlternate ==
    \A i \in Idx("request") : Alternates(trace[i].contents)

\* C28: the callbacks of a generation belong to the session that was active
\* when its send or continue was issued, and a step of the call changes of
\* the sessions nothing but the text, the thinking flag and the sources of the
\* last message of that session, and that only when it is a MODEL message:
\* every other session and every earlier message is left as it was, whichever
\* session is active by then.
C28_CallbacksPatchOnlyThePlaceholder ==
    /\ []((op.name \in {"send", "continue"} /\ op.id # Null) => callSessionId = op.id)
    /\ [][op'.name = "step" =>
            /\ Len(sessions') = Len(sessions)
            /\ \A k \in 1..Len(sessions) :
                 IF /\ sessions[k].id = callSessionId
                    /\ sessions[k].messages # <<>>
                    /\ Last(sessions[k].messages).role = RoleModel
                 THEN /\ sessions'[k].id = sessions[k].id
                      /\ sessions'[k].title = sessions[k].title
                      /\ Len(sessions'[k].messages) = Len(sessions[k].messages)
                      /\ \A m \in 1..(Len(sessions[k].messages) - 1) :
                            sessions'[k].messages[m] = sessions[k].messages[m]
                      /\ Last(sessions'[k].messages).role = RoleModel
                      /\ Last(sessions'[k].messages).attachments
                             = Last(sessions[k].messages).attachments
                 ELSE sessions'[k] = sessions[k]]_vars

\* A chunk has been written into the placeholder of a session that is no
\* longer the active one, next to another session that has messages.
C28_Witness ==
    /\ op.name = "step"
    /\ callSessionId \in Ids(sessions)
    /\ currentSessionId # callSessionId
    /\ trace # <<>>
    /\ Last(trace).ev = "onChunk"
    /\ Last(currentSessionMessages(sessions, callSessionId)).text = Last(trace).text
    /\ currentSessionMessages(sessions, currentSessionId) # <<>>

\* C29: every render of a changed session list clears the timeout and sets
\* it anew, 500 ms ahead and on the new list; the callback runs only when
\* those 500 ms have passed without such a render, it runs once, and what it
\* writes is the redacted copy of the list rendered last.
C29_WritesAreDebounced ==
    /\ [](timer.pending =>
             /\ timer.age <= DebounceMs
             /\ timer.sessions = rendered.sessions)
    /\ [][(mounted' /\ rendered'.sessions # rendered.sessions) =>
             timer' = [pending |-> TRUE, age |-> 0, sessions |-> rendered'.sessions]]_vars
    /\ [][op'.name \in {"save", "save failed"} =>
             /\ timer.pending
             /\ timer.age = 500
             /\ ~timer'.pending]_vars
    /\ [][op'.name = "save" =>
             localStorage'.sessions = Item(safeSessions(rendered.sessions))]_vars
    /\ [][localStorage'.sessions # localStorage.sessions => op'.name = "save"]_vars

\* The one write after a whole exchange: send, chunk and final update were
\* rendered less than 500 ms apart, and the list written is the final one.
C29_Witness ==
    /\ op.name = "save"
    /\ loads = 0
    /\ turns = 1
    /\ pc = "idle"
    /\ rendered = [sessions |-> sessions, isLoading |-> FALSE]
    /\ localStorage.sessions = Item(safeSessions(sessions))
    /\ \E msg \in ModelMessages(sessions) : msg.text = <<"x">>

\* The session of a list with the given id.
SessionOf(list, id) == list[CHOOSE k \in 1..Len(list) : list[k].id = id]

C31_OneCallInFlight ==
    /\ isLoading <=> pc # "idle"
    /\ pc # "idle" => rendered.isLoading
    /\ isLoading => callSessionId # Null
    /\ ~isLoading => trace = <<>>

\* A call is streaming while the user has selected another session: the
\* rendered isLoading keeps the send and the continue of that session off.
C31_Witness ==
    /\ pc = "streaming"
    /\ isLoading
    /\ rendered.isLoading
    /\ currentSessionId # callSessionId
    /\ callSessionId \in Ids(sessions)
    /\ Count("onChunk") > 0

\* The onChunk calls of the call so far.
ChunksOfCall == Events("onChunk")

\* C32: when a call has retried and its last attempt has succeeded, the
\* last onChunk of the call was made by the stream of that attempt with the
\* text that attempt accumulated: it is neither a notice nor the text of a
\* failed attempt.
C32_LastChunkIsOfTheSuccessfulAttempt ==
    (pc = "succeeded" /\ attempt > 0 /\ ChunksOfCall # <<>>) =>
        /\ Last(ChunksOfCall).src = "stream"
        /\ Last(ChunksOfCall).attempt = attempt
        /\ Last(ChunksOfCall).text = fullText

\* C33: what is stored under the key of the sessions never holds a message
\* with isThinking = TRUE, and so neither does a list the load effect read.
C33_NoThinkingMessageStored ==
    /\ localStorage.sessions.kind = "list" =>
           Thinking(localStorage.sessions.sessions) = {}
    /\ (op.name = "mount" /\ op.made = Null) => Thinking(sessions) = {}

\* C34: a deleteSession of a session other than the one of the call, made
\* while the call is streaming, leaves the session of the call as it was,
\* with the text of the last chunk delivered; and when the finally block has
\* run after such a delete, the last message of that session is not thinking.
C34_DeleteLosesNoUpdate ==
    [][/\ (/\ op'.name = "delete"
           /\ pc = "streaming"
           /\ op'.id # callSessionId
           /\ callSessionId \in Ids(sessions)) =>
              /\ callSessionId \in Ids(sessions')
              /\ SessionOf(sessions', callSessionId) = SessionOf(sessions, callSessionId)
       /\ (/\ op'.name = "finally"
           /\ callSessionId \in Ids(sessions')) =>
              ~Last(SessionOf(sessions', callSessionId).messages).isThinking]_vars

\* C35: once the load effect has run, the active session id is the id of a
\* session of the list, and of the list rendered last.
C35_ActiveSessionExists ==
    mounted =>
        /\ currentSessionId \in Ids(sessions)
        /\ currentSessionId \in Ids(rendered.sessions)

\* The session of the call has just been deleted while the call streams,
\* and another session is active.
C35_Witness ==
    /\ op.name = "delete"
    /\ op.id = callSessionId
    /\ pc = "streaming"
    /\ callSessionId \notin Ids(sessions)
    /\ currentSessionId \in Ids(sessions)

\* C36: every request of a call carries the turns and the tools of its first
\* request: the turns built from the arguments of the call, and the search
\* tool exactly when useSearch is set. Requests differ in their attempt
\* number and, after a switch, in their model.
C36_AttemptsSendTheSameRequest ==
    LET reqs == Events("request")
    IN  \A k \in 1..Len(reqs) :
            /\ reqs[k].contents = reqs[1].contents
            /\ reqs[k].tools = reqs[1].tools
            /\ reqs[k].contents = contents(history, newMessage, attachments, useSearch)
            /\ reqs[k].tools = tools(useSearch)

\* A call with search and a history has switched its model: its second
\* request names another model than the first.
C36_Witness ==
    LET reqs == Events("request")
    IN  /\ Len(reqs) >= 2
        /\ reqs[2].model # reqs[1].model
        /\ reqs[2].tools = <<"googleSearch">>
        /\ Len(reqs[2].contents) >= 2

\* C37: when a call has ended, the sources of the last message of its
\* session were delivered by the last attempt, the one whose text or error
\* text the message shows, and not by an attempt that failed before it.
C37_SourcesOfTheShownAttempt ==
    (/\ pc \in {"succeeded", "failed"}
     /\ callSessionId \in Ids(sessions)
     /\ Last(SessionOf(sessions, callSessionId).messages).groundingSources # <<>>) =>
        /\ Events("onGrounding") # <<>>
        /\ Last(Events("onGrounding")).attempt = attempt

====
